---------------------------- MODULE Spec2Model ----------------------------
(***************************************************************************)
(* A model of the voximity/raytracer rendering core: the SAH BVH build     *)
(* (acceleration.rs), the primitive intersection routines (object/*.rs),   *)
(* the recursive tracer and the parallel render driver (scene.rs).         *)
(*                                                                         *)
(* Numbers.  The program computes in f64.  Every coordinate of the model   *)
(* is a small integer, so every sum, product, halving and comparison the   *)
(* code performs on them is exact in f64 and is computed here in the       *)
(* integers; a centroid (min + max) * 0.5 is kept doubled.  EPSILON is     *)
(* 1e-11: strictly between 0 and the smallest positive value the model     *)
(* can produce, so the comparisons against it are decided exactly by       *)
(* GtEps, LtEps and GeEps below.                                           *)
(***************************************************************************)
EXTENDS Integers, Sequences, FiniteSets, TLC

(***************************************************************************)
(* Bounds of the model.                                                    *)
(***************************************************************************)
MaxTris == 3
MaxDepth == 1
MaxMeshTris == 2

(***************************************************************************)
(* math/vector.rs, math/mod.rs                                             *)
(***************************************************************************)
AxisX == 1
AxisY == 2
AxisZ == 3

Min2(a, b) == IF a <= b THEN a ELSE b
Max2(a, b) == IF a >= b THEN a ELSE b
Abs(a) == IF a < 0 THEN -a ELSE a

VAdd(a, b) == <<a[1] + b[1], a[2] + b[2], a[3] + b[3]>>
VSub(a, b) == <<a[1] - b[1], a[2] - b[2], a[3] - b[3]>>
VScale(a, k) == <<a[1] * k, a[2] * k, a[3] * k>>
VNeg(a) == <<-a[1], -a[2], -a[3]>>
Dot(a, b) == a[1] * b[1] + a[2] * b[2] + a[3] * b[3]
Cross(a, b) ==
    << a[2] * b[3] - a[3] * b[2],
       -a[1] * b[3] + a[3] * b[1],
       a[1] * b[2] - a[2] * b[1] >>

\* f64::signum: 1.0 for +0.0 and positive numbers, -1.0 for negative ones.
Signum(x) == IF x >= 0 THEN 1 ELSE -1

(***************************************************************************)
(* acceleration.rs: Aabb.  Aabb::default() has min = VECTOR_MAX and        *)
(* max = VECTOR_MIN (all components +inf / -inf): the box that is the      *)
(* unit of union.  It is the record with empty = TRUE.                     *)
(***************************************************************************)
OBJECT_BUCKETS == 32

AabbDefault == [empty |-> TRUE, min |-> <<0, 0, 0>>, max |-> <<0, 0, 0>>]

AabbNew(mn, mx) == [empty |-> FALSE, min |-> mn, max |-> mx]

AabbUnion(a, b) ==
    IF a.empty THEN b
    ELSE IF b.empty THEN a
    ELSE [empty |-> FALSE,
          min |-> <<Min2(a.min[1], b.min[1]), Min2(a.min[2], b.min[2]),
                    Min2(a.min[3], b.min[3])>>,
          max |-> <<Max2(a.max[1], b.max[1]), Max2(a.max[2], b.max[2]),
                    Max2(a.max[3], b.max[3])>>]

\* Aabb::from_vecs over the three vertices of a triangle.
AabbFromVecs(v) ==
    AabbUnion(AabbNew(v[1], v[1]),
              AabbUnion(AabbNew(v[2], v[2]), AabbNew(v[3], v[3])))

\* surface_area of a box that is not empty (of the empty box it is +inf).
SurfaceArea(b) ==
    LET xs == b.max[1] - b.min[1]
        ys == b.max[2] - b.min[2]
        zs == b.max[3] - b.min[3]
    IN  2 * xs * ys + 2 * xs * zs + 2 * ys * zs

Extent(b, axis) == b.max[axis] - b.min[axis]

\* Twice the centroid's coordinate: centroid = (min + max) * 0.5.
Centroid2(b, axis) == b.min[axis] + b.max[axis]

\* Box a contains box b.
AabbContains(a, b) ==
    \/ b.empty
    \/ /\ ~a.empty
       /\ \A k \in 1..3 : a.min[k] <= b.min[k] /\ b.max[k] <= a.max[k]

(***************************************************************************)
(* The triangles a mesh is made of: vertex triples with integer            *)
(* coordinates.  Triangle::new stores from_vecs of the vertices as the     *)
(* triangle's bounding box.                                                *)
(***************************************************************************)
TriCatalogue ==
    << << <<0, 0, 0>>, <<2, 0, 0>>, <<0, 2, 0>> >>,    \* z = 0, near the origin
       << <<0, 0, 2>>, <<2, 0, 2>>, <<0, 2, 2>> >>,    \* z = 2, same footprint
       << <<6, 0, 0>>, <<8, 0, 0>>, <<6, 2, 0>> >>,    \* z = 0, far along x
       << <<0, 0, 0>>, <<0, 2, 0>>, <<2, 0, 0>> >>,    \* triangle 1, wound the other way
       << <<4, 0, 0>>, <<4, 2, 0>>, <<4, 0, 2>> >>,    \* flat on x, at x = 4
       << <<3, 0, 0>>, <<5, 0, 0>>, <<3, 2, 0>> >> >>  \* z = 0, in the middle

TriIds == 1..Len(TriCatalogue)

TriangleBoundingBox(tri) == AabbFromVecs(tri)

RECURSIVE SeqsUpTo(_, _)
SeqsUpTo(S, n) ==
    IF n = 0 THEN {<<>>}
    ELSE LET shorter == SeqsUpTo(S, n - 1)
         IN  shorter \cup {Append(s, x) : s \in {q \in shorter : Len(q) = n - 1}, x \in S}

(***************************************************************************)
(* acceleration.rs: object_split_candidate and object_split.  refs is the  *)
(* sequence of the references' boxes (reference i of the code is           *)
(* refs[i + 1]); input is a sequence of reference indices (0-based, as in  *)
(* the code).                                                              *)
(***************************************************************************)
RefBox(refs, idx) == refs[idx + 1]

\* ((centroid - min) / extent * 32) as usize.  0/0 is NaN, which the cast
\* takes to 0.
BucketIdx(box, total, axis) ==
    LET ext == Extent(total, axis)
        num == Centroid2(box, axis) - 2 * total.min[axis]
    IN  IF ext = 0 THEN 0 ELSE (num * OBJECT_BUCKETS) \div (2 * ext)

RECURSIVE UnionOver(_, _)
UnionOver(refs, idxs) ==
    IF idxs = <<>> THEN AabbDefault
    ELSE AabbUnion(UnionOver(refs, SubSeq(idxs, 1, Len(idxs) - 1)),
                   RefBox(refs, idxs[Len(idxs)]))

\* buckets[bucket_idx] is an index into an array of OBJECT_BUCKETS.
BucketOutOfRange(refs, total, input, axis) ==
    \E k \in 1..Len(input) :
        BucketIdx(RefBox(refs, input[k]), total, axis) >= OBJECT_BUCKETS

\* The cost of cutting before bucket i is
\*   1 + (n_lhs * sa_lhs + n_rhs * sa_rhs) / sa_total;
\* with an empty side its count is 0 and its area +inf, so the cost is NaN;
\* with sa_total = 0 it is +inf or NaN.  Neither is < min_cost.  All costs
\* share the divisor, so they compare as their numerators do.
SplitLhs(refs, total, input, axis, i) ==
    SelectSeq(input, LAMBDA idx : BucketIdx(RefBox(refs, idx), total, axis) < i)

SplitRhs(refs, total, input, axis, i) ==
    SelectSeq(input, LAMBDA idx : BucketIdx(RefBox(refs, idx), total, axis) >= i)

CostComparable(refs, total, input, axis, i) ==
    /\ SplitLhs(refs, total, input, axis, i) # <<>>
    /\ SplitRhs(refs, total, input, axis, i) # <<>>
    /\ SurfaceArea(total) > 0

CostNumerator(refs, total, input, axis, i) ==
    LET l == SplitLhs(refs, total, input, axis, i)
        r == SplitRhs(refs, total, input, axis, i)
    IN  Len(l) * SurfaceArea(UnionOver(refs, l))
          + Len(r) * SurfaceArea(UnionOver(refs, r))

\* The loop runs i from OBJECT_BUCKETS - 1 down to 1 and keeps a cut only
\* when its cost is strictly below the best so far.  found = FALSE is
\* min_cost = f64::MAX, min_idx = 0.
RECURSIVE CandidateLoop(_, _, _, _, _, _)
CandidateLoop(refs, total, input, axis, i, best) ==
    IF i < 1 THEN best
    ELSE LET ok == CostComparable(refs, total, input, axis, i)
             num == CostNumerator(refs, total, input, axis, i)
             better == ok /\ (~best.found \/ num < best.num)
         IN  CandidateLoop(refs, total, input, axis, i - 1,
                 IF better THEN [found |-> TRUE, num |-> num, idx |-> i]
                 ELSE best)

ObjectSplitCandidate(refs, total, input, axis) ==
    CandidateLoop(refs, total, input, axis, OBJECT_BUCKETS - 1,
                  [found |-> FALSE, num |-> 0, idx |-> 0])

\* The split branch taken whatever the costs.
SplitWinsAlways(cand, total, n) == TRUE

\* object_split_cost < leaf_cost, with leaf_cost = input.len():
\* 1 + num / sa_total < n.
SplitWins(cand, total, n) ==
    cand.found /\ cand.num < (n - 1) * SurfaceArea(total)

\* object_split: the left cursor fills output from the front, the right
\* cursor from the back.  rhs_ptr is a usize: decrementing it at 0 is an
\* overflow.
RECURSIVE SplitLoop(_, _, _, _, _, _, _)
SplitLoop(refs, total, input, axis, bucket, k, st) ==
    IF k > Len(input) THEN st
    ELSE LET idx == input[k]
             this == BucketIdx(RefBox(refs, idx), total, axis)
         IN  IF this < bucket
             THEN SplitLoop(refs, total, input, axis, bucket, k + 1,
                      [st EXCEPT !.out[st.lhs + 1] = idx, !.lhs = st.lhs + 1])
             ELSE SplitLoop(refs, total, input, axis, bucket, k + 1,
                      [st EXCEPT !.out[st.rhs + 1] = idx,
                                 !.rhs = IF st.rhs = 0 THEN 0 ELSE st.rhs - 1,
                                 !.underflow = st.underflow \/ st.rhs = 0])

ObjectSplit(refs, total, input, output, axis, bucket) ==
    SplitLoop(refs, total, input, axis, bucket, 1,
              [out |-> output, lhs |-> 0, rhs |-> Len(output) - 1,
               underflow |-> FALSE])

\* Sbvh::build, lines 320-331: the axis of largest extent.
SplitAxis(total) ==
    LET ex == Extent(total, AxisX)
        ey == Extent(total, AxisY)
        ez == Extent(total, AxisZ)
    IN  IF ex >= ey /\ ex >= ez THEN AxisX
        ELSE IF ey >= ez THEN AxisY
        ELSE AxisZ

(***************************************************************************)
(* State.                                                                  *)
(*   prims        the triangles Sbvh::new is given (catalogue ids)         *)
(*   refs         Sbvh::new's refs: the bounding box of each reference     *)
(*   buffer_a/b   the two index buffers build ping-pongs between           *)
(*   nodes, len   AtomicArena: storage and the atomic length counter       *)
(*   tasks        the activations of Sbvh::build, by their path in the     *)
(*                fork-join tree (<<>> is the top-level call, p \o <<0>>   *)
(*                and p \o <<1>> the two closures of rayon::join)          *)
(*   root_node    Sbvh.root_node                                           *)
(*   tree         the TreeNode the Sbvh is converted into                  *)
(*   bstat        where Sbvh::new(..).into() stands                        *)
(***************************************************************************)
VARIABLES prims, refs, buffer_a, buffer_b, nodes, len, tasks, root_node,
          tree, bstat

(***************************************************************************)
(* State of one Scene::trace_pixel.                                        *)
(*   objects        the materials of scene.objects                         *)
(*   max_ray_depth  scene.options.max_ray_depth                            *)
(*   stack          the activations of trace_ray, the innermost last       *)
(*   retval         the Color a finished activation hands to its caller    *)
(*   calls          how many times trace_ray has been entered              *)
(*   tir            where refraction_vec last returned None                *)
(*   result         the Color trace_pixel returns                          *)
(*   tstat          where trace_pixel stands                               *)
(***************************************************************************)
VARIABLES objects, max_ray_depth, stack, retval, calls, tir, result, tstat

(***************************************************************************)
(* State of Scene::render and Scene::render_to.                            *)
(*   vw, vh       camera.vw and camera.vh                                  *)
(*   threads      the size of rayon's thread pool                          *)
(*   area_lights  whether the scene holds an area light (its shading draws *)
(*                from rand::thread_rng)                                   *)
(*   pix          per index of 0..vw*vh, where its map closure stands      *)
(*   buffer       the Vec the parallel collect fills                       *)
(*   first        the Vec returned by the first execution of render        *)
(*   imgbuf       render_to's image, by <<x, y>>                           *)
(*   rstat        where the two executions stand                           *)
(***************************************************************************)
VARIABLES vw, vh, threads, area_lights, pix, buffer, first, imgbuf, rstat

(***************************************************************************)
(* State of one scene object and of one call of Intersect::intersect.      *)
(*   target    the object: a sphere, a box, a plane, or a Mesh with its    *)
(*             triangles and its sbvh (None or the TreeNode)               *)
(*   ray       the Ray handed to intersect                                 *)
(*   hit       what intersect returned                                     *)
(*   examined  how many BVH nodes and triangles the call has tested        *)
(*   istat     where the object and the call stand                         *)
(***************************************************************************)
VARIABLES target, ray, hit, examined, istat

(***************************************************************************)
(* State of a Cubemap and of one call of its ray_color.                    *)
(*   tex        the width and height of the texture given to Cubemap::new  *)
(*   cell_size  Cubemap.cell_size, the side of one tile of the texture     *)
(*   sky_dir    the direction of the ray handed to ray_color               *)
(*   sky_tile   the (cx, cy) ray_color hands to poll_tex                   *)
(*   sky_read   the pixels <<x, y>> poll_tex reads with get_pixel          *)
(*   sstat      where the call stands                                      *)
(***************************************************************************)
VARIABLES tex, cell_size, sky_dir, sky_tile, sky_read, sstat

(***************************************************************************)
(* State of a Camera.                                                      *)
(*   cam      the Camera: vw, vh, fov and the precomputed chf              *)
(*   cam_dir  what the last call of direction_fov returned                 *)
(***************************************************************************)
VARIABLES cam, cam_dir

(***************************************************************************)
(* One call of refraction_vec.                                             *)
(*   refr_in   its arguments: the ray's direction, the normal, the IORs    *)
(*   refr_out  what it returned                                            *)
(***************************************************************************)
VARIABLES refr_in, refr_out

(***************************************************************************)
(* One product of two matrices.                                            *)
(*   mat_a, mat_b  the operands of Matrix::mul                             *)
(*   mat_out       the product                                             *)
(***************************************************************************)
VARIABLES mat_a, mat_b, mat_out

(***************************************************************************)
(* One call of Area::shading.                                              *)
(*   area_light    the light: iterations, max_distance                     *)
(*   area_scene    the occluder the shadow rays can meet                   *)
(*   area_pos      the positions sampled so far, in order                  *)
(*   area_samples  the local vector samples                                *)
(*   area_out      the returned LightShading                               *)
(***************************************************************************)
VARIABLES area_light, area_scene, area_pos, area_samples, area_out

(***************************************************************************)
(* One call of Scene::cast_ray_once from trace_ray.                        *)
(*   scene_objects  scene.objects, in order                                *)
(*   cast_ray       the ray: a ray of Rays, or one with a NaN direction    *)
(*   cast_v         the Vec cast_ray returns: (object index, hit.near)     *)
(*   shaded         what trace_ray goes on with: an object, or the skybox  *)
(*   cstat          where the call stands                                  *)
(***************************************************************************)
VARIABLES scene_objects, cast_ray, cast_v, shaded, cstat

(***************************************************************************)
(* One call of Cubemap::poll_tex.                                          *)
(*   poll_in   the texture's pattern, cell_size, and the arguments         *)
(*             cx, cy, x, y of the call                                    *)
(*   poll_out  one channel of the Color returned                           *)
(***************************************************************************)
VARIABLES poll_in, poll_out

(***************************************************************************)
(* A Mesh under its operations.                                            *)
(*   mesh_verts    the three vertices of each triangle (verts read         *)
(*                 through tris)                                           *)
(*   mesh_normals  normals, each kept up to its length                     *)
(*   mesh_sbvh     sbvh: NoTree for None                                   *)
(*   mesh_ops      the number of operations applied                        *)
(*   mesh_stat     "ready", or "panic" once an operation has aborted       *)
(***************************************************************************)
VARIABLES mesh_verts, mesh_normals, mesh_sbvh, mesh_ops, mesh_stat

(***************************************************************************)
(* The pass through an object of ior 1.                                    *)
(*   thru_obj    the object the ray strikes                                *)
(*   thru_ray    the ray trace_ray is called with                          *)
(*   thru_hit    object.intersect(ray)                                     *)
(*   thru_again  what the continuation ray from hit.vfar finds of the      *)
(*               same object                                               *)
(***************************************************************************)
VARIABLES thru_obj, thru_ray, thru_hit, thru_again

buildVars == <<prims, refs, buffer_a, buffer_b, nodes, len, tasks,
               root_node, tree, bstat>>

traceVars == <<objects, max_ray_depth, stack, retval, calls, tir, result,
               tstat>>

renderVars == <<vw, vh, threads, area_lights, pix, buffer, first, imgbuf,
                rstat>>

isectVars == <<target, ray, hit, examined, istat>>

skyVars == <<tex, cell_size, sky_dir, sky_tile, sky_read, sstat>>

camVars == <<cam, cam_dir>>

refrVars == <<refr_in, refr_out>>

matVars == <<mat_a, mat_b, mat_out>>

areaVars == <<area_light, area_scene, area_pos, area_samples, area_out>>

castVars == <<scene_objects, cast_ray, cast_v, shaded, cstat>>

pollVars == <<poll_in, poll_out>>

meshOpsVars == <<mesh_verts, mesh_normals, mesh_sbvh, mesh_ops, mesh_stat>>

thruVars == <<thru_obj, thru_ray, thru_hit, thru_again>>

vars == <<buildVars, traceVars, renderVars, isectVars, skyVars, camVars,
         refrVars,
         matVars,
         areaVars,
         castVars,
         pollVars,
         meshOpsVars,
         thruVars>>

\* What each part of the program leaves alone.
notBuildVars == <<traceVars, renderVars, isectVars, skyVars, camVars,
    refrVars,
    matVars,
    areaVars,
    castVars,
    pollVars,
    meshOpsVars,
    thruVars>>
notTraceVars == <<buildVars, renderVars, isectVars, skyVars, camVars,
    refrVars,
    matVars,
    areaVars,
    castVars,
    pollVars,
    meshOpsVars,
    thruVars>>
notRenderVars == <<buildVars, traceVars, isectVars, skyVars, camVars,
    refrVars,
    matVars,
    areaVars,
    castVars,
    pollVars,
    meshOpsVars,
    thruVars>>
notIsectVars == <<buildVars, traceVars, renderVars, skyVars, camVars,
    refrVars,
    matVars,
    areaVars,
    castVars,
    pollVars,
    meshOpsVars,
    thruVars>>
notSkyVars == <<buildVars, traceVars, renderVars, isectVars, camVars,
    refrVars,
    matVars,
    areaVars,
    castVars,
    pollVars,
    meshOpsVars,
    thruVars>>
notCamVars == <<buildVars, traceVars, renderVars, isectVars, skyVars,
    refrVars,
    matVars,
    areaVars,
    castVars,
    pollVars,
    meshOpsVars,
    thruVars>>
notRefrVars == <<buildVars, traceVars, renderVars, isectVars, skyVars, camVars,
    matVars,
    areaVars,
    castVars,
    pollVars,
    meshOpsVars,
    thruVars>>
notMatVars == <<buildVars, traceVars, renderVars, isectVars, skyVars, camVars, refrVars,
    areaVars,
    castVars,
    pollVars,
    meshOpsVars,
    thruVars>>
notAreaVars == <<buildVars, traceVars, renderVars, isectVars, skyVars, camVars, refrVars, matVars,
    castVars,
    pollVars,
    meshOpsVars,
    thruVars>>
notCastVars == <<buildVars, traceVars, renderVars, isectVars, skyVars, camVars, refrVars, matVars, areaVars,
    pollVars,
    meshOpsVars,
    thruVars>>
notPollVars == <<buildVars, traceVars, renderVars, isectVars, skyVars, camVars, refrVars, matVars, areaVars, castVars,
    meshOpsVars,
    thruVars>>
notMeshOpsVars == <<buildVars, traceVars, renderVars, isectVars, skyVars, camVars, refrVars, matVars, areaVars, castVars, pollVars,
    thruVars>>
notThruVars == <<buildVars, traceVars, renderVars, isectVars, skyVars, camVars, refrVars, matVars, areaVars, castVars, pollVars, meshOpsVars>>

\* The state of the renderer while another part of the program is examined.
RenderIdle ==
    /\ vw = 0
    /\ vh = 0
    /\ threads = 0
    /\ area_lights = FALSE
    /\ pix = <<>>
    /\ buffer = <<>>
    /\ first = <<>>
    /\ imgbuf = <<>>
    /\ rstat = "off"

\* No ray is being passed through an object.
ThruIdle ==
    /\ thru_obj = [k |-> "unset"]
    /\ thru_ray = [k |-> "unset"]
    /\ thru_hit = [k |-> "unset"]
    /\ thru_again = [k |-> "unset"]

\* No mesh is being operated on.
MeshOpsIdle ==
    /\ mesh_verts = <<>>
    /\ mesh_normals = <<>>
    /\ mesh_sbvh = [kind |-> "None"]
    /\ mesh_ops = 0
    /\ mesh_stat = "off"

\* No texture is being polled.
PollIdle ==
    /\ poll_in = [k |-> "unset"]
    /\ poll_out = [k |-> "unset"]

\* No scene is under examination.
CastIdle ==
    /\ scene_objects = <<>>
    /\ cast_ray = [k |-> "unset"]
    /\ cast_v = <<>>
    /\ shaded = [k |-> "unset"]
    /\ cstat = "off"

\* No area light is under examination.
AreaIdle ==
    /\ area_light = [k |-> "unset"]
    /\ area_scene = [k |-> "unset"]
    /\ area_pos = <<>>
    /\ area_samples = <<>>
    /\ area_out = [k |-> "unset"]

\* No matrix product is under examination.
MatIdle ==
    /\ mat_a = [k |-> "unset"]
    /\ mat_b = [k |-> "unset"]
    /\ mat_out = [k |-> "unset"]

\* No call of refraction_vec is under examination.
RefrIdle ==
    /\ refr_in = [k |-> "unset"]
    /\ refr_out = [k |-> "unset"]

\* The state of the camera while another part of the program is examined.
CamIdle ==
    /\ cam = [k |-> "unset"]
    /\ cam_dir = [k |-> "unset"]

\* The state of the skybox while another part of the program is examined.
SkyIdle ==
    /\ tex = <<0, 0>>
    /\ cell_size = 0
    /\ sky_dir = <<0, 0, 0>>
    /\ sky_tile = <<>>
    /\ sky_read = {}
    /\ sstat = "off"

\* The state of the object while another part of the program is examined.
IsectIdle ==
    /\ target = [k |-> "unset"]
    /\ ray = [k |-> "unset"]
    /\ hit = [k |-> "unset"]
    /\ examined = 0
    /\ istat = "off"

\* The state of the tracer while another part of the program is examined.
TraceIdle ==
    /\ objects = <<>>
    /\ max_ray_depth = 0
    /\ stack = <<>>
    /\ retval = [k |-> "none"]
    /\ calls = 0
    /\ tir = "never"
    /\ result = [k |-> "none"]
    /\ tstat = "off"

Uninit == [kind |-> "Uninit"]
NoTree == [kind |-> "None"]

\* A leaf that keeps only the first reference of idxs.
CreateLeafFirstOnly(idxs) ==
    [kind |-> "Leaf", refs |-> IF idxs = <<>> THEN <<>> ELSE <<idxs[1]>>]

\* Sbvh::create_leaf: the leaf holds a clone of each reference of idxs;
\* reference i has prim_idx = i.
CreateLeaf(idxs) == [kind |-> "Leaf", refs |-> idxs]

\* AtomicArena::get: None unless i < len.
ArenaGet(storage, n, i) ==
    IF i >= 0 /\ i < n /\ i < Len(storage) THEN storage[i + 1] ELSE Uninit

\* A bounding box that leaves out the right child.
RECURSIVE NodeBoundingBoxLhsOnly(_, _, _, _)
NodeBoundingBoxLhsOnly(storage, n, rs, idx) ==
    LET node == ArenaGet(storage, n, idx)
    IN  IF node.kind = "Node"
        THEN NodeBoundingBoxLhsOnly(storage, n, rs, node.lhs)
        ELSE IF node.kind = "Leaf" THEN UnionOver(rs, node.refs)
        ELSE AabbDefault

\* Sbvh::node_bounding_box.
RECURSIVE NodeBoundingBox(_, _, _, _)
NodeBoundingBox(storage, n, rs, idx) ==
    LET node == ArenaGet(storage, n, idx)
    IN  IF node.kind = "Node"
        THEN AabbUnion(NodeBoundingBox(storage, n, rs, node.lhs),
                       NodeBoundingBox(storage, n, rs, node.rhs))
        ELSE IF node.kind = "Leaf" THEN UnionOver(rs, node.refs)
        ELSE AabbDefault

\* sbvh_to_tree_node.
RECURSIVE SbvhToTreeNode(_, _, _, _)
SbvhToTreeNode(storage, n, rs, idx) ==
    LET node == ArenaGet(storage, n, idx)
        bounding == NodeBoundingBox(storage, n, rs, idx)
    IN  IF node.kind = "Leaf"
        THEN [kind |-> "Leaf", indices |-> node.refs, bounding |-> bounding]
        ELSE IF node.kind = "Node"
        THEN [kind |-> "Branch",
              a |-> SbvhToTreeNode(storage, n, rs, node.lhs),
              b |-> SbvhToTreeNode(storage, n, rs, node.rhs),
              bounding |-> bounding]
        ELSE [kind |-> "Invalid"]

(***************************************************************************)
(* Sbvh::new up to the call of build.  With no primitive the arena size    *)
(* 2 * refs.len() - 1 underflows usize: the call aborts (an overflow       *)
(* panic, or without overflow checks an allocation of usize::MAX slots).   *)
(***************************************************************************)
Iota(n) == [i \in 1..n |-> i - 1]

SbvhNew ==
    /\ bstat = "idle"
    /\ LET n == Len(prims)
       IN  /\ refs' = [i \in 1..n |-> TriangleBoundingBox(TriCatalogue[prims[i]])]
           /\ IF n = 0
              THEN /\ bstat' = "panic"
                   /\ UNCHANGED <<buffer_a, buffer_b, nodes, len, tasks>>
              ELSE /\ buffer_a' = Iota(n)
                   /\ buffer_b' = [i \in 1..n |-> 0]
                   /\ nodes' = [i \in 1..(2 * n - 1) |-> Uninit]
                   /\ len' = 0
                   /\ tasks' = (<<>> :> [lo |-> 0, hi |-> n, inb |-> "a",
                                         pc |-> "start", node |-> Uninit,
                                         idx |-> 0, ret |-> 0])
                   /\ bstat' = "building"
    /\ UNCHANGED <<prims, root_node, tree>>
    /\ UNCHANGED notBuildVars

(***************************************************************************)
(* Sbvh::build from its entry to its first push or to the fork.  The       *)
(* activation owns its two slices, so nothing it reads or writes here is   *)
(* shared with an activation running beside it.                            *)
(***************************************************************************)
InBuf(t) == IF tasks[t].inb = "a" THEN buffer_a ELSE buffer_b
OutBuf(t) == IF tasks[t].inb = "a" THEN buffer_b ELSE buffer_a
Flip(b) == IF b = "a" THEN "b" ELSE "a"

\* seq with positions lo+1..hi replaced by slice.
Splice(seq, lo, hi, slice) ==
    [i \in 1..Len(seq) |-> IF i > lo /\ i <= hi THEN slice[i - lo] ELSE seq[i]]

ToPush(t, node) == [tasks EXCEPT ![t].pc = "push", ![t].node = node]

BuildStart(t) ==
    /\ bstat = "building"
    /\ tasks[t].pc = "start"
    /\ LET lo == tasks[t].lo
           hi == tasks[t].hi
           input == SubSeq(InBuf(t), lo + 1, hi)
           output == SubSeq(OutBuf(t), lo + 1, hi)
           total == UnionOver(refs, input)
           axis == SplitAxis(total)
           cand == ObjectSplitCandidate(refs, total, input, axis)
           sp == ObjectSplit(refs, total, input, output, axis, cand.idx)
           written == Splice(OutBuf(t), lo, hi, sp.out)
       IN  IF Len(input) < 2
           THEN /\ tasks' = ToPush(t, CreateLeaf(input))
                /\ UNCHANGED <<buffer_a, buffer_b, bstat>>
           ELSE IF BucketOutOfRange(refs, total, input, axis)
           THEN /\ bstat' = "panic"
                /\ UNCHANGED <<buffer_a, buffer_b, tasks>>
           ELSE IF ~SplitWins(cand, total, Len(input))
           THEN /\ tasks' = ToPush(t, CreateLeaf(input))
                /\ UNCHANGED <<buffer_a, buffer_b, bstat>>
           ELSE IF sp.underflow
           THEN /\ bstat' = "panic"
                /\ UNCHANGED <<buffer_a, buffer_b, tasks>>
           ELSE /\ buffer_a' = IF tasks[t].inb = "a" THEN buffer_a ELSE written
                /\ buffer_b' = IF tasks[t].inb = "a" THEN written ELSE buffer_b
                /\ tasks' =
                     [p \in DOMAIN tasks \cup {t \o <<0>>, t \o <<1>>} |->
                        IF p = t THEN [tasks[t] EXCEPT !.pc = "join"]
                        ELSE IF p = t \o <<0>>
                        THEN [lo |-> lo, hi |-> lo + sp.lhs,
                              inb |-> Flip(tasks[t].inb), pc |-> "start",
                              node |-> Uninit, idx |-> 0, ret |-> 0]
                        ELSE IF p = t \o <<1>>
                        THEN [lo |-> lo + sp.lhs, hi |-> hi,
                              inb |-> Flip(tasks[t].inb), pc |-> "start",
                              node |-> Uninit, idx |-> 0, ret |-> 0]
                        ELSE tasks[p]]
                /\ UNCHANGED bstat
    /\ UNCHANGED <<prims, refs, nodes, len, root_node, tree>>
    /\ UNCHANGED notBuildVars

\* The children taken in the order of their arena indices.
JoinNodeInArenaOrder(l, r) ==
    [kind |-> "Node", lhs |-> Min2(l, r), rhs |-> Max2(l, r)]

\* SbvhNode::Node { lhs, rhs } of the pair rayon::join returns: the first
\* closure's index, then the second's.
JoinNode(l, r) == [kind |-> "Node", lhs |-> l, rhs |-> r]

\* rayon::join returned: both closures have returned their node index.
BuildJoin(t) ==
    /\ bstat = "building"
    /\ tasks[t].pc = "join"
    /\ tasks[t \o <<0>>].pc = "done"
    /\ tasks[t \o <<1>>].pc = "done"
    /\ tasks' = ToPush(t, JoinNode(tasks[t \o <<0>>].ret, tasks[t \o <<1>>].ret))
    /\ UNCHANGED <<prims, refs, buffer_a, buffer_b, nodes, len, root_node,
                   tree, bstat>>
    /\ UNCHANGED notBuildVars

\* A plain load of the counter in place of the fetch_add.
LoadWithoutAdd(n) == [idx |-> n, len |-> n]

\* AtomicUsize::fetch_add(1, SeqCst): the value before, and the counter
\* after; one indivisible step.
FetchAdd(n) == [idx |-> n, len |-> n + 1]

\* AtomicArena::push, first half: idx = len.fetch_add(1).
PushFetchAdd(t) ==
    /\ bstat = "building"
    /\ tasks[t].pc = "push"
    /\ len' = FetchAdd(len).len
    /\ tasks' = [tasks EXCEPT ![t].pc = "store", ![t].idx = FetchAdd(len).idx]
    /\ UNCHANGED <<prims, refs, buffer_a, buffer_b, nodes, root_node, tree,
                   bstat>>
    /\ UNCHANGED notBuildVars

\* AtomicArena::push, second half: storage[idx] = v (a checked index into
\* the boxed slice), and the return of idx to the caller of build.
PushStore(t) ==
    /\ bstat = "building"
    /\ tasks[t].pc = "store"
    /\ IF tasks[t].idx >= Len(nodes)
       THEN /\ bstat' = "panic"
            /\ UNCHANGED <<nodes, tasks>>
       ELSE /\ nodes' = [nodes EXCEPT ![tasks[t].idx + 1] = tasks[t].node]
            /\ tasks' = [tasks EXCEPT ![t].pc = "done", ![t].ret = tasks[t].idx]
            /\ UNCHANGED bstat
    /\ UNCHANGED <<prims, refs, buffer_a, buffer_b, len, root_node, tree>>
    /\ UNCHANGED notBuildVars

\* Sbvh::new returns Self { nodes, root_node }.
SbvhNewReturn ==
    /\ bstat = "building"
    /\ tasks[<<>>].pc = "done"
    /\ root_node' = tasks[<<>>].ret
    /\ bstat' = "built"
    /\ UNCHANGED <<prims, refs, buffer_a, buffer_b, nodes, len, tasks, tree>>
    /\ UNCHANGED notBuildVars

\* impl Into<TreeNode> for Sbvh.
IntoTreeNode ==
    /\ bstat = "built"
    /\ tree' = SbvhToTreeNode(nodes, len, refs, root_node)
    /\ bstat' = "done"
    /\ UNCHANGED <<prims, refs, buffer_a, buffer_b, nodes, len, tasks,
                   root_node>>
    /\ UNCHANGED notBuildVars

BuildIdle ==
    /\ prims = <<>>
    /\ refs = <<>>
    /\ buffer_a = <<>>
    /\ buffer_b = <<>>
    /\ nodes = <<>>
    /\ len = 0
    /\ tasks = <<>>
    /\ root_node = 0
    /\ tree = NoTree
    /\ bstat = "off"

InitBuild ==
    /\ TraceIdle
    /\ RenderIdle
    /\ IsectIdle
    /\ SkyIdle
    /\ CamIdle
    /\ RefrIdle
    /\ MatIdle
    /\ AreaIdle
    /\ CastIdle
    /\ PollIdle
    /\ MeshOpsIdle
    /\ ThruIdle
    /\ prims \in SeqsUpTo(TriIds, MaxTris)
    /\ refs = <<>>
    /\ buffer_a = <<>>
    /\ buffer_b = <<>>
    /\ nodes = <<>>
    /\ len = 0
    /\ tasks = <<>>
    /\ root_node = 0
    /\ tree = NoTree
    /\ bstat = "idle"

NextBuild ==
    \/ SbvhNew
    \/ \E t \in DOMAIN tasks : BuildStart(t)
    \/ \E t \in DOMAIN tasks : BuildJoin(t)
    \/ \E t \in DOMAIN tasks : PushFetchAdd(t)
    \/ \E t \in DOMAIN tasks : PushStore(t)
    \/ SbvhNewReturn
    \/ IntoTreeNode

SpecBuild == InitBuild /\ [][NextBuild]_vars

(***************************************************************************)
(* Reading a TreeNode.                                                     *)
(***************************************************************************)
RECURSIVE LeafIndices(_)
LeafIndices(node) ==
    IF node.kind = "Leaf" THEN node.indices
    ELSE IF node.kind = "Branch" THEN LeafIndices(node.a) \o LeafIndices(node.b)
    ELSE <<>>

RECURSIVE TreeNodes(_)
TreeNodes(node) ==
    IF node.kind = "Branch" THEN {node} \cup TreeNodes(node.a) \cup TreeNodes(node.b)
    ELSE {node}

SeqRange(s) == {s[i] : i \in 1..Len(s)}

\* C1: once Sbvh::new(T) has been converted to a TreeNode, the leaves' index
\* lists together hold every index 0..|T|-1 exactly once.
C1_LeavesPartitionIndices ==
    bstat = "done" =>
        /\ Len(LeafIndices(tree)) = Len(prims)
        /\ SeqRange(LeafIndices(tree)) = 0..(Len(prims) - 1)

\* A finished build that split at least once: several leaves.
C1_Witness ==
    /\ bstat = "done"
    /\ Len(prims) = MaxTris
    /\ tree.kind = "Branch"
    /\ Cardinality({n \in TreeNodes(tree) : n.kind = "Leaf"}) >= 2

\* C2: in the TreeNode of a built Sbvh the box of every node contains the
\* bounding box of every triangle whose index is reachable from the node,
\* and the box of a Branch contains the boxes of both children.
C2_NodeBoxContainsReachable ==
    bstat = "done" =>
        \A n \in TreeNodes(tree) :
            /\ \A i \in SeqRange(LeafIndices(n)) :
                   AabbContains(n.bounding,
                                TriangleBoundingBox(TriCatalogue[prims[i + 1]]))
            /\ n.kind = "Branch" =>
                   /\ AabbContains(n.bounding, n.a.bounding)
                   /\ AabbContains(n.bounding, n.b.bounding)

\* A finished tree with a Branch whose children have different boxes.
C2_Witness ==
    /\ bstat = "done"
    /\ tree.kind = "Branch"
    /\ tree.a.bounding # tree.b.bounding
    /\ tree.bounding # tree.a.bounding
    /\ tree.bounding # tree.b.bounding


(***************************************************************************)
(* scene.rs: Scene::trace_ray.                                             *)
(*                                                                         *)
(* A material holds reflectiveness, transparency and ior.  The first two   *)
(* are drawn from 0, EPSILON and 1, written "0", "eps" and "1"; ior is a   *)
(* fraction <<numerator, denominator>>.  What a ray meets is the scene's   *)
(* geometry, which the tracer takes as it comes: each cast picks the       *)
(* object struck (or none) and the cosine -normal . direction of the       *)
(* incidence (a fraction).  Colours are kept as terms: the sky, the        *)
(* directly lit colour of an object (texture times ambient plus lights),   *)
(* and lerp of two colours by a weight.                                    *)
(***************************************************************************)
MaterialCatalogue ==
    { [reflectiveness |-> "0", transparency |-> "0",   ior |-> <<13, 10>>],
      [reflectiveness |-> "1", transparency |-> "0",   ior |-> <<13, 10>>],
      [reflectiveness |-> "0", transparency |-> "1",   ior |-> <<1, 1>>],
      [reflectiveness |-> "0", transparency |-> "1",   ior |-> <<3, 2>>],
      [reflectiveness |-> "1", transparency |-> "1",   ior |-> <<3, 2>>],
      [reflectiveness |-> "0", transparency |-> "1",   ior |-> <<1, 2>>],
      [reflectiveness |-> "1", transparency |-> "eps", ior |-> <<13, 10>>] }

Cosines == { <<1, 1>>, <<1, 2>> }

\* x > EPSILON and x < EPSILON for x among 0, EPSILON, 1.
GtEpsL(x) == x = "1"
LtEpsL(x) == x = "0"

Sky == [k |-> "sky"]
Direct(o) == [k |-> "direct", obj |-> o]
Lerp(a, b, w) == [k |-> "lerp", a |-> a, b |-> b, w |-> w]
NoColor == [k |-> "none"]

\* The three weights trace_ray blends by.
WTransparency(o) == [w |-> "transparency", n |-> o]
WReflectiveness(o) == [w |-> "reflectiveness", n |-> o]
WFresnel(cos) == [w |-> "1 + direction . normal", n |-> cos]

\* math/mod.rs refraction_vec returns None: with n = from_ior / to_ior,
\* sin_t2 = n * n * (1 - cos_i * cos_i) > 1.
RefractionVecIsNone(cos, from_ior, to_ior) ==
    LET nn == from_ior[1] * to_ior[2]
        nd == from_ior[2] * to_ior[1]
    IN  nn * nn * (cos[2] * cos[2] - cos[1] * cos[1]) > nd * nd * cos[2] * cos[2]

AirIor == <<1, 1>>
IorIsOne(ior) == ior[1] = ior[2]

\* The depth test off by one.
DepthBudgetLeftInclusive(depth) == depth <= max_ray_depth

\* depth < self.options.max_ray_depth
DepthBudgetLeft(depth) == depth < max_ray_depth

NewFrame(depth) ==
    [depth |-> depth, pc |-> "cast", obj |-> 0, cos |-> <<1, 1>>,
     color |-> NoColor, transparency_color |-> NoColor]

Material(f) == objects[f.obj]

Call(f, at) == [op |-> "call", f |-> [f EXCEPT !.pc = at], v |-> NoColor]
Return(f, v) == [op |-> "return", f |-> f, v |-> v]
Abort(f, where) == [op |-> where, f |-> f, v |-> NoColor]

\* Lines 178-196: the pure reflection branch and the return.
AfterTransparency(f) ==
    IF /\ GtEpsL(Material(f).reflectiveness)
       /\ DepthBudgetLeft(f.depth)
       /\ LtEpsL(Material(f).transparency)
    THEN Call(f, "reflected")
    ELSE Return(f, f.color)

\* Lines 160-176, with transparency_color set.
AfterRefraction(f) ==
    IF GtEpsL(Material(f).reflectiveness)
    THEN Call(f, "fresnel")
    ELSE AfterTransparency(
             [f EXCEPT !.color = Lerp(f.color, f.transparency_color,
                                      WTransparency(f.obj))])

\* Lines 102-158: the activation has struck object o under cosine cos.  The
\* two object.intersect calls of the refraction path give ref_hit and
\* exit_hit; the exit is struck under exit_cos.
OnHit(f, o, cos, ref_hit, exit_hit, exit_cos) ==
    LET g == [f EXCEPT !.obj = o, !.cos = cos, !.color = Direct(o),
                       !.transparency_color = Direct(o)]
        m == objects[o]
    IN  IF GtEpsL(m.transparency) /\ DepthBudgetLeft(g.depth)
        THEN IF IorIsOne(m.ior) THEN Call(g, "thru")
             ELSE IF RefractionVecIsNone(cos, AirIor, m.ior)
             THEN Abort(g, "unwrap on entry")
             ELSE IF ref_hit /\ exit_hit
             THEN IF RefractionVecIsNone(exit_cos, m.ior, AirIor)
                  THEN Abort(g, "unwrap on exit")
                  ELSE Call(g, "refracted")
             ELSE AfterRefraction(g)
        ELSE AfterTransparency(g)

\* The activation resumes with the Color v of the trace_ray it called.
OnReturn(f, v) ==
    IF f.pc \in {"thru", "refracted"}
    THEN AfterRefraction([f EXCEPT !.transparency_color = v])
    ELSE IF f.pc = "fresnel"
    THEN AfterTransparency(
             [f EXCEPT !.color =
                 Lerp(f.color,
                      Lerp(f.transparency_color, v, WFresnel(f.cos)),
                      WTransparency(f.obj))])
    ELSE Return(f, Lerp(f.color, v, WReflectiveness(f.obj)))

Top == stack[Len(stack)]
Pop == SubSeq(stack, 1, Len(stack) - 1)

\* What an outcome of the innermost activation does to the state.
Apply(out) ==
    IF out.op = "call"
    THEN /\ stack' = Append(Pop, out.f) \o <<NewFrame(out.f.depth + 1)>>
         /\ calls' = calls + 1
         /\ retval' = NoColor
         /\ UNCHANGED <<tir, result, tstat>>
    ELSE IF out.op = "return"
    THEN /\ stack' = Pop
         /\ retval' = IF Len(stack) = 1 THEN NoColor ELSE out.v
         /\ result' = IF Len(stack) = 1 THEN out.v ELSE result
         /\ tstat' = IF Len(stack) = 1 THEN "done" ELSE tstat
         /\ UNCHANGED <<calls, tir>>
    ELSE /\ tir' = out.op
         /\ tstat' = "panic"
         /\ stack' = Append(Pop, out.f)
         /\ UNCHANGED <<calls, retval, result>>

\* Scene::trace_pixel: trace_ray(ray, 0).
TracePixel ==
    /\ tstat = "idle"
    /\ stack' = <<NewFrame(0)>>
    /\ calls' = 1
    /\ tstat' = "running"
    /\ UNCHANGED <<objects, max_ray_depth, retval, tir, result>>
    /\ UNCHANGED notTraceVars

\* cast_ray_once returns None: the skybox's colour.
TraceMiss ==
    /\ tstat = "running"
    /\ stack # <<>>
    /\ Top.pc = "cast"
    /\ Apply(Return(Top, Sky))
    /\ UNCHANGED <<objects, max_ray_depth>>
    /\ UNCHANGED notTraceVars

TraceHit ==
    /\ tstat = "running"
    /\ stack # <<>>
    /\ Top.pc = "cast"
    /\ \E o \in 1..Len(objects), cos \in Cosines, exit_cos \in Cosines,
          ref_hit \in BOOLEAN, exit_hit \in BOOLEAN :
          Apply(OnHit(Top, o, cos, ref_hit, exit_hit, exit_cos))
    /\ UNCHANGED <<objects, max_ray_depth>>
    /\ UNCHANGED notTraceVars

TraceResume ==
    /\ tstat = "running"
    /\ stack # <<>>
    /\ Top.pc # "cast"
    /\ retval # NoColor
    /\ Apply(OnReturn(Top, retval))
    /\ UNCHANGED <<objects, max_ray_depth>>
    /\ UNCHANGED notTraceVars

InitTrace ==
    /\ BuildIdle
    /\ RenderIdle
    /\ IsectIdle
    /\ SkyIdle
    /\ CamIdle
    /\ RefrIdle
    /\ MatIdle
    /\ AreaIdle
    /\ CastIdle
    /\ PollIdle
    /\ MeshOpsIdle
    /\ ThruIdle
    /\ objects \in {<<a, b>> : a \in MaterialCatalogue, b \in MaterialCatalogue}
    /\ max_ray_depth \in 0..MaxDepth
    /\ stack = <<>>
    /\ retval = NoColor
    /\ calls = 0
    /\ tir = "never"
    /\ result = NoColor
    /\ tstat = "idle"

NextTrace ==
    \/ TracePixel
    \/ TraceMiss
    \/ TraceHit
    \/ TraceResume

SpecTrace == InitTrace /\ [][NextTrace]_vars

\* Every step of the tracer that can be taken is eventually taken: a thread
\* that runs trace_pixel is not suspended for ever.
FairSpecTrace == SpecTrace /\ WF_vars(NextTrace)

\* C3: from trace_pixel on, no activation of trace_ray has a depth above
\* max_ray_depth; the primary ray has depth 0 and every activation is one
\* deeper than its caller, whose depth is below max_ray_depth.
C3_DepthNeverExceedsMax ==
    \A i \in 1..Len(stack) :
        /\ stack[i].depth = i - 1
        /\ stack[i].depth <= max_ray_depth
        /\ i < Len(stack) => stack[i].depth < max_ray_depth

\* A recursive activation at the deepest level allowed.
C3_Witness ==
    /\ max_ray_depth = MaxDepth
    /\ Len(stack) = MaxDepth + 1
    /\ Top.depth = max_ray_depth

\* C4: trace_ray ends for every scene and every max_ray_depth (it returns
\* its Color, or stops at one of the unwraps of the refraction path); an
\* activation at depth max_ray_depth never calls trace_ray; and with
\* max_ray_depth = 0 trace_ray is entered exactly once per pixel and returns
\* the sky or the directly lit colour of the object struck.
C4_TraceRayTerminates ==
    /\ <>(tstat \in {"done", "panic"})
    /\ [](\A i \in 1..Len(stack) :
            stack[i].depth = max_ray_depth => (i = Len(stack) /\ stack[i].pc = "cast"))
    /\ []((tstat = "done" /\ max_ray_depth = 0) =>
            /\ calls = 1
            /\ result \in {Sky} \cup {Direct(o) : o \in 1..Len(objects)})

\* Two mirrors, max_ray_depth = 0: one activation, the directly lit colour.
C4_Witness ==
    /\ tstat = "done"
    /\ max_ray_depth = 0
    /\ \A o \in 1..Len(objects) :
          objects[o].reflectiveness = "1" /\ objects[o].transparency = "0"
    /\ calls = 1
    /\ result = Direct(1)

\* C5: total internal reflection never surfaces as a failure: when
\* refraction_vec returns None, on entry or on exit, trace_ray keeps the
\* surface colour for that bounce and still returns a Color.
C5_TotalInternalReflectionIsLocal ==
    tir # "never" => tstat # "panic"

(***************************************************************************)
(* Scene::render and Scene::render_to.                                     *)
(*                                                                         *)
(* render maps trace_pixel over the parallel range 0..vw*vh and collects   *)
(* into a Vec.  The closures run on rayon's pool, at most `threads` at a   *)
(* time and in any order; the indexed collect hands the value computed for *)
(* item i to position i of the Vec.  The first execution modelled is a     *)
(* call of render, the second is the call render_to makes before it writes *)
(* the image; each may run on a pool of its own size.                      *)
(*                                                                         *)
(* The Color of a pixel is kept as the pixel it was traced for.  With an   *)
(* area light the shading of the pixel in its penumbra also depends on the *)
(* sample its thread's generator draws.                                    *)
(***************************************************************************)
MaxSide == 2
MaxThreads == 2

Samples == {"s1", "s2"}

InPenumbra(x, y) == x = 0 /\ y = 0

PixelColor(x, y, s) == [k |-> "pixel", x |-> x, y |-> y, sample |-> s]

\* Scene::trace_pixel(x, y): the Colors it can return.
TracePixelColors(x, y) ==
    IF area_lights /\ InPenumbra(x, y)
    THEN {PixelColor(x, y, s) : s \in Samples}
    ELSE {PixelColor(x, y, "-")}

\* The two arguments exchanged.
PixelOfTransposed(i, w) == <<i \div w, i % w>>

\* The arguments i % vw and i / vw of trace_pixel for item i.
PixelOf(i, w) == <<i % w, i \div w>>

\* A collect that appends the Colors as the closures finish.
CollectSlotInCompletionOrder(i, n) == n

\* The position of the collected Vec that receives item i; n closures have
\* finished before it.
CollectSlot(i, n) == i

\* The coordinates render_to hands to put_pixel for element i.
PutPixelAt(i, w) == <<i % w, i \div w>>

Black == [k |-> "black"]

Items == 0..(vw * vh - 1)

Finished == {i \in Items : pix[i] = "done"}

StartRender ==
    /\ pix' = [i \in Items |-> "todo"]
    /\ buffer' = [i \in 1..(vw * vh) |-> NoColor]
    /\ \E n \in 1..MaxThreads : threads' = n

\* Scene::render is entered.
Render ==
    /\ rstat = "idle"
    /\ StartRender
    /\ rstat' = "render"
    /\ UNCHANGED <<vw, vh, area_lights, first, imgbuf>>
    /\ UNCHANGED notRenderVars

\* A thread of the pool takes item i.
PixelStart(i) ==
    /\ rstat \in {"render", "render_to"}
    /\ pix[i] = "todo"
    /\ Cardinality({j \in Items : pix[j] = "running"}) < threads
    /\ pix' = [pix EXCEPT ![i] = "running"]
    /\ UNCHANGED <<vw, vh, threads, area_lights, buffer, first, imgbuf, rstat>>
    /\ UNCHANGED notRenderVars

\* The closure of item i returns and its Color is collected.
PixelFinish(i) ==
    /\ rstat \in {"render", "render_to"}
    /\ pix[i] = "running"
    /\ \E c \in TracePixelColors(PixelOf(i, vw)[1], PixelOf(i, vw)[2]) :
          buffer' = [buffer EXCEPT ![CollectSlot(i, Cardinality(Finished)) + 1] = c]
    /\ pix' = [pix EXCEPT ![i] = "done"]
    /\ UNCHANGED <<vw, vh, threads, area_lights, first, imgbuf, rstat>>
    /\ UNCHANGED notRenderVars

\* Scene::render returns the collected Vec.
RenderReturn ==
    /\ rstat = "render"
    /\ Finished = Items
    /\ first' = buffer
    /\ rstat' = "returned"
    /\ UNCHANGED <<vw, vh, threads, area_lights, pix, buffer, imgbuf>>
    /\ UNCHANGED notRenderVars

\* Scene::render_to is entered and calls render.
RenderTo ==
    /\ rstat = "returned"
    /\ StartRender
    /\ rstat' = "render_to"
    /\ UNCHANGED <<vw, vh, area_lights, first, imgbuf>>
    /\ UNCHANGED notRenderVars

\* The element put_pixel leaves at <<x, y>>: the last one written there.
LastPut(x, y) ==
    LET at == {i \in Items : PutPixelAt(i, vw) = <<x, y>>}
    IN  IF at = {} THEN Black
        ELSE buffer[(CHOOSE i \in at : \A j \in at : j <= i) + 1]

\* render_to, once render has returned: the put_pixel loop and the save.
\* put_pixel panics on coordinates outside the image.
RenderToWrite ==
    /\ rstat = "render_to"
    /\ Finished = Items
    /\ IF \E i \in Items : PutPixelAt(i, vw)[1] >= vw \/ PutPixelAt(i, vw)[2] >= vh
       THEN /\ rstat' = "panic"
            /\ imgbuf' = imgbuf
       ELSE /\ rstat' = "saved"
            /\ imgbuf' = [xy \in (0..(vw - 1)) \X (0..(vh - 1)) |-> LastPut(xy[1], xy[2])]
    /\ UNCHANGED <<vw, vh, threads, area_lights, pix, buffer, first>>
    /\ UNCHANGED notRenderVars

InitRender ==
    /\ BuildIdle
    /\ TraceIdle
    /\ IsectIdle
    /\ SkyIdle
    /\ CamIdle
    /\ RefrIdle
    /\ MatIdle
    /\ AreaIdle
    /\ CastIdle
    /\ PollIdle
    /\ MeshOpsIdle
    /\ ThruIdle
    /\ vw \in 1..MaxSide
    /\ vh \in 1..MaxSide
    /\ threads = 0
    /\ area_lights \in BOOLEAN
    /\ pix = <<>>
    /\ buffer = <<>>
    /\ first = <<>>
    /\ imgbuf = <<>>
    /\ rstat = "idle"

NextRender ==
    \/ Render
    \/ \E i \in DOMAIN pix : PixelStart(i)
    \/ \E i \in DOMAIN pix : PixelFinish(i)
    \/ RenderReturn
    \/ RenderTo
    \/ RenderToWrite

SpecRender == InitRender /\ [][NextRender]_vars

\* Vec v holds, row by row, a Color of trace_pixel for every pixel.
RowMajor(v) ==
    /\ Len(v) = vw * vh
    /\ \A x \in 0..(vw - 1), y \in 0..(vh - 1) :
          v[y * vw + x + 1] \in TracePixelColors(x, y)

\* C6: the Vec render returns has exactly vw*vh elements and the one at
\* index y*vw + x is the Color of trace_pixel(x, y), in whatever order the
\* pixel closures finish; render_to puts that element at image pixel (x, y).
C6_BufferIsRowMajor ==
    /\ rstat \in {"returned", "render_to", "saved"} => RowMajor(first)
    /\ rstat = "saved" =>
          /\ RowMajor(buffer)
          /\ DOMAIN imgbuf = (0..(vw - 1)) \X (0..(vh - 1))
          /\ \A x \in 0..(vw - 1), y \in 0..(vh - 1) :
                imgbuf[<<x, y>>] = buffer[y * vw + x + 1]

C6_Witness ==
    /\ rstat = "saved"
    /\ vw = MaxSide
    /\ vh = MaxSide
    /\ threads = MaxThreads
    /\ imgbuf[<<1, 0>>] = PixelColor(1, 0, "-")
    /\ imgbuf[<<0, 1>>] = PixelColor(0, 1, "-")

\* C7: without area lights two executions of render on the same scene
\* return the same Vec, whatever the interleavings of the pixel closures
\* and the sizes of the thread pools.
C7_RenderIsDeterministic ==
    (~area_lights /\ rstat = "saved") => buffer = first

C7_Witness ==
    /\ rstat = "saved"
    /\ ~area_lights
    /\ vw * vh >= MaxSide
    /\ threads = MaxThreads
    /\ buffer = first
    /\ buffer[1] # buffer[vw * vh]

(***************************************************************************)
(* Intersect::intersect of the primitives (object/*.rs), and the Aabb ray  *)
(* test of the acceleration structure.                                     *)
(*                                                                         *)
(* Rays start at a point of the integer grid and run along an axis, so     *)
(* every dot and cross product below is an exact integer.  A quotient is   *)
(* kept as the pair <<numerator, denominator>> with a positive             *)
(* denominator.  A normal is kept up to a positive factor (the code        *)
(* normalizes the sphere's, and weighs the mesh's by u, v, w); the factor  *)
(* does not change the sign of a dot product.  A zero component of a       *)
(* direction is +0.0, so its inverse is +inf.                              *)
(***************************************************************************)
Rat(n, d) == IF d < 0 THEN <<-n, -d>> ELSE <<n, d>>
RLess(a, b) == a[1] * b[2] < b[1] * a[2]
RLeq(a, b) == a[1] * b[2] <= b[1] * a[2]

\* x > EPSILON, x < EPSILON and x >= EPSILON for a quotient of the model.
GtEps(x) == x[1] > 0
LtEps(x) == x[1] <= 0
GeEps(x) == x[1] > 0

\* The f64 values of the slab tests.
Fin(x) == [k |-> "fin", v |-> x]
PosInf == [k |-> "inf"]
NegInf == [k |-> "-inf"]
NaN == [k |-> "nan"]

\* x * (1 / d) for a component d of the direction: 0 * inf is NaN.
TimesInverse(d, x) ==
    IF d > 0 THEN Fin(x)
    ELSE IF d < 0 THEN Fin(-x)
    ELSE IF x > 0 THEN PosInf
    ELSE IF x < 0 THEN NegInf
    ELSE NaN

\* a < b; false when either is NaN.
FLess(a, b) ==
    /\ a.k # "nan"
    /\ b.k # "nan"
    /\ \/ a.k = "-inf" /\ b.k # "-inf"
       \/ b.k = "inf" /\ a.k # "inf"
       \/ a.k = "fin" /\ b.k = "fin" /\ a.v < b.v

\* f64::max and f64::min: with one NaN argument, the other argument.
FMax(a, b) ==
    IF a.k = "nan" THEN b ELSE IF b.k = "nan" THEN a
    ELSE IF FLess(a, b) THEN b ELSE a

FMin(a, b) ==
    IF a.k = "nan" THEN b ELSE IF b.k = "nan" THEN a
    ELSE IF FLess(b, a) THEN b ELSE a

ToRat(x) == IF x.k = "fin" THEN <<x.v, 1>> ELSE x

NewRay(o, d) == [origin |-> o, direction |-> d]

HitNone == [k |-> "None"]
HitNew(normal, near, far) ==
    [k |-> "Some", normal |-> normal, near |-> near, far |-> far]

\* The slabs of a box of centre c and half-size size: the componentwise
\* t1 and t2, and their maximum tn and minimum tf.
Slabs(c, size, r) ==
    LET s == [i \in 1..3 |-> -Signum(r.direction[i])]
        nro == VSub(c, r.origin)
        t1 == [i \in 1..3 |-> TimesInverse(r.direction[i], nro[i] + s[i] * size[i])]
        t2 == [i \in 1..3 |-> TimesInverse(r.direction[i], nro[i] - s[i] * size[i])]
    IN  [s |-> s, t1 |-> t1, t2 |-> t2,
         tn |-> FMax(FMax(t1[1], t1[2]), t1[3]),
         tf |-> FMin(FMin(t2[1], t2[2]), t2[3])]

SlabsMiss(sl) == FLess(sl.tf, sl.tn) \/ FLess(sl.tf, Fin(0))

\* AabbIntersector::intersect.
AabbIntersectorIntersect(pos, size, r) ==
    LET sl == Slabs(pos, size, r)
        normal == IF FLess(sl.t1[2], sl.t1[1]) /\ FLess(sl.t1[3], sl.t1[1])
                  THEN <<sl.s[1], 0, 0>>
                  ELSE IF FLess(sl.t1[3], sl.t1[2])
                  THEN <<0, sl.s[2], 0>>
                  ELSE <<0, 0, sl.s[3]>>
    IN  IF SlabsMiss(sl) THEN HitNone
        ELSE HitNew(normal, ToRat(sl.tn), ToRat(sl.tf))

\* acceleration::Aabb::intersect, on the doubled box: centroid and size
\* doubled, origin doubled, which scales tn and tf by two and leaves the
\* comparisons as they are.  The default box has size -inf and is missed.
AabbIntersect(b, r) ==
    IF b.empty THEN FALSE
    ELSE LET c2 == <<Centroid2(b, AxisX), Centroid2(b, AxisY), Centroid2(b, AxisZ)>>
             size2 == VSub(VScale(b.max, 2), c2)
             r2 == NewRay(VScale(r.origin, 2), r.direction)
         IN  ~SlabsMiss(Slabs(c2, size2, r2))

\* f64::sqrt of a perfect square.
Sqrt(n) == CHOOSE k \in 0..n : k * k = n

\* Sphere::intersect.  The normal is vtn - origin, radius times the unit
\* normal.
SphereIntersect(origin, radius, r) ==
    LET rad2 == radius * radius
        l == VSub(origin, r.origin)
        t2 == Dot(l, r.direction)
        d2 == Dot(l, l) - t2 * t2
        t3 == Sqrt(rad2 - d2)
        t0 == t2 - t3
        t1 == t2 + t3
        vtn == VAdd(r.origin, VScale(r.direction, t0))
    IN  IF t2 < 0 THEN HitNone
        ELSE IF d2 > rad2 THEN HitNone
        ELSE HitNew(VSub(vtn, origin), <<t0, 1>>, <<t1, 1>>)

\* Plane::intersect.  denom.abs() > EPSILON is denom # 0 here.
PlaneIntersect(origin, normal, r) ==
    LET denom == Dot(normal, r.direction)
        t == Rat(Dot(VSub(origin, r.origin), normal), denom)
    IN  IF denom = 0 THEN HitNone
        ELSE IF t[1] > 0
        THEN HitNew(VScale(normal, -Signum(denom)), t, t)
        ELSE HitNone

(***************************************************************************)
(* object/mesh.rs.  A Mesh is kept as the sequence of its triangles, each  *)
(* with vertices of its own: triangle i (0-based) has the vertices 3i,     *)
(* 3i + 1 and 3i + 2.  normals and tri_normals are the Vecs of the code,   *)
(* tri_normals holding 0-based indices into normals; texcoords is kept as  *)
(* its length, tri_texcoords as the Vec of index triples.                  *)
(***************************************************************************)

\* Vector3::normalize of a vector along an axis.
Normalize(v) ==
    [i \in 1..3 |-> IF v[i] > 0 THEN 1 ELSE IF v[i] < 0 THEN -1 ELSE 0]

\* triangle_normal.
TriangleNormal(tri) ==
    Normalize(Cross(VSub(tri[2], tri[1]), VSub(tri[3], tri[1])))

TriNone == [k |-> "None"]

\* triangle_intersect (Moller-Trumbore).  a within (-EPSILON, EPSILON) is
\* a = 0 here.  u, v and t are quotients by a.
TriangleIntersect(tri, r) ==
    LET edge1 == VSub(tri[2], tri[1])
        edge2 == VSub(tri[3], tri[1])
        h == Cross(r.direction, edge2)
        a == Dot(edge1, h)
        sv == VSub(r.origin, tri[1])
        u == Rat(Dot(sv, h), a)
        q == Cross(sv, edge1)
        v == Rat(Dot(r.direction, q), a)
        t == Rat(Dot(edge2, q), a)
    IN  IF a = 0 THEN TriNone
        ELSE IF u[1] < 0 \/ u[1] > u[2] THEN TriNone
        ELSE IF v[1] < 0 \/ u[1] + v[1] > u[2] THEN TriNone
        ELSE IF GtEps(t) THEN [k |-> "Some", t |-> t, u |-> u, v |-> v]
        ELSE TriNone

\* triangle_intersect_normal: a * (1 - u - v) + b * u + c * v, times the
\* common denominator of u and v.
TriangleIntersectNormal(ns, i) ==
    VAdd(VAdd(VScale(ns[1], i.u[2] - i.u[1] - i.v[1]),
              VScale(ns[2], i.u[1])),
         VScale(ns[3], i.v[1]))

\* The triangle with index i (0-based) of mesh m.
MeshTri(m, i) == TriCatalogue[m.tris[i + 1]]

\* self.tri_normals[i][0..2] and the three reads of ns in
\* triangle_intersect_normal, all checked indexings.
TriNormalsInRange(m, i) ==
    /\ i < Len(m.tri_normals)
    /\ \A c \in 1..3 : m.tri_normals[i + 1][c] < Len(m.normals)

MeshTriNormals(m, i) ==
    [c \in 1..3 |-> m.normals[m.tri_normals[i + 1][c] + 1]]

\* The uv argument of Hit::new: self.tri_texcoords[i][0..2] is read only
\* when tri_texcoords is not empty, and triangle_intersect_uvs reads tc
\* only when it is not empty.
TriTexcoordsInRange(m, i) ==
    \/ Len(m.tri_texcoords) = 0
    \/ /\ i < Len(m.tri_texcoords)
       /\ \/ m.texcoords = 0
          \/ \A c \in 1..3 : m.tri_texcoords[i + 1][c] < m.texcoords

MeshUv(m, i) ==
    IF Len(m.tri_texcoords) > 0 /\ m.texcoords > 0 THEN "interpolated"
    ELSE "zero"

\* The traversal with a branch returning its first child's candidates alone
\* when both children have some.
RECURSIVE SbvhIntersectionEitherChild(_, _)
SbvhIntersectionEitherChild(node, r) ==
    IF ~AabbIntersect(node.bounding, r) THEN [some |-> FALSE, v |-> <<>>]
    ELSE IF node.kind = "Branch"
    THEN LET av == SbvhIntersectionEitherChild(node.a, r)
             bv == SbvhIntersectionEitherChild(node.b, r)
         IN  IF av.some THEN av ELSE bv
    ELSE [some |-> TRUE, v |-> node.indices]

\* Mesh::sbvh_intersection: None when the ray misses the node's box.
RECURSIVE SbvhIntersection(_, _)
SbvhIntersection(node, r) ==
    IF ~AabbIntersect(node.bounding, r) THEN [some |-> FALSE, v |-> <<>>]
    ELSE IF node.kind = "Branch"
    THEN LET av == SbvhIntersection(node.a, r)
             bv == SbvhIntersection(node.b, r)
         IN  [some |-> av.some \/ bv.some, v |-> av.v \o bv.v]
    ELSE [some |-> TRUE, v |-> node.indices]

\* The nodes whose box sbvh_intersection tests.
RECURSIVE NodesTested(_, _)
NodesTested(node, r) ==
    IF node.kind = "Branch" /\ AabbIntersect(node.bounding, r)
    THEN 1 + NodesTested(node.a, r) + NodesTested(node.b, r)
    ELSE 1

\* The filter_map over the candidate triangles, in their order.
RECURSIVE IntersectedTris(_, _, _)
IntersectedTris(m, cand, r) ==
    IF cand = <<>> THEN <<>>
    ELSE LET i == Head(cand)
             h == TriangleIntersect(MeshTri(m, i), r)
             rest == IntersectedTris(m, Tail(cand), r)
         IN  IF h.k = "Some" THEN <<[i |-> i, h |-> h]>> \o rest ELSE rest

\* sort_by on t: a stable sort.
RECURSIVE SortByT(_)
SortByT(xs) ==
    IF xs = <<>> THEN <<>>
    ELSE LET sorted == SortByT(SubSeq(xs, 1, Len(xs) - 1))
             x == xs[Len(xs)]
             keep == {j \in 1..Len(sorted) : RLeq(sorted[j].h.t, x.h.t)}
             n == Cardinality(keep)
         IN  SubSeq(sorted, 1, n) \o <<x>> \o SubSeq(sorted, n + 1, Len(sorted))

\* The assertion left out.
SbvhIsSomeUnchecked(m) == TRUE

\* assert!(self.sbvh.is_some()).
SbvhIsSome(m) == m.sbvh.kind # "None"

HitPanic(at) == [k |-> "panic", at |-> at]

\* Mesh::intersect.
MeshIntersect(m, r) ==
    IF ~SbvhIsSome(m) THEN HitPanic("assert")
    ELSE IF m.sbvh.kind = "None" THEN HitPanic("unwrap")
    ELSE LET found == SbvhIntersection(m.sbvh, r)
             hits == SortByT(IntersectedTris(m, found.v, r))
         IN  IF ~found.some \/ found.v = <<>> \/ hits = <<>> THEN HitNone
             ELSE LET t == hits[1]
                      normal == TriangleIntersectNormal(MeshTriNormals(m, t.i), t.h)
                      far == IF Len(hits) = 1 THEN t.h.t ELSE hits[2].h.t
                  IN  IF ~TriNormalsInRange(m, t.i) THEN HitPanic("index")
                      ELSE IF ~TriTexcoordsInRange(m, t.i) THEN HitPanic("index")
                      ELSE [k |-> "Some", normal |-> normal, near |-> t.h.t,
                            far |-> far, uv |-> MeshUv(m, t.i)]

\* The BVH nodes and the triangles a call of Mesh::intersect tests.
MeshExamined(m, r) ==
    IF m.sbvh.kind = "None" THEN 0
    ELSE NodesTested(m.sbvh, r) + Len(SbvhIntersection(m.sbvh, r).v)

(***************************************************************************)
(* Sbvh::new(tris).into() as a function of the triangles: build run to     *)
(* its end on the references input, converted by sbvh_to_tree_node.  The   *)
(* two halves of a split work on disjoint slices, so the TreeNode does not *)
(* depend on how rayon::join runs them.                                    *)
(***************************************************************************)
TreePanic == [kind |-> "Panic"]

TreeLeaf(rs, input) ==
    [kind |-> "Leaf", indices |-> CreateLeaf(input).refs,
     bounding |-> UnionOver(rs, input)]

RECURSIVE BuildSubtree(_, _)
BuildSubtree(rs, input) ==
    LET total == UnionOver(rs, input)
        axis == SplitAxis(total)
        cand == ObjectSplitCandidate(rs, total, input, axis)
        sp == ObjectSplit(rs, total, input, input, axis, cand.idx)
    IN  IF Len(input) < 2 THEN TreeLeaf(rs, input)
        ELSE IF BucketOutOfRange(rs, total, input, axis) THEN TreePanic
        ELSE IF ~SplitWins(cand, total, Len(input)) THEN TreeLeaf(rs, input)
        ELSE IF sp.underflow THEN TreePanic
        ELSE LET a == BuildSubtree(rs, SubSeq(sp.out, 1, sp.lhs))
                 b == BuildSubtree(rs, SubSeq(sp.out, sp.lhs + 1, Len(input)))
             IN  IF a.kind = "Panic" \/ b.kind = "Panic" THEN TreePanic
                 ELSE [kind |-> "Branch", a |-> a, b |-> b,
                       bounding |-> AabbUnion(a.bounding, b.bounding)]

BuildTree(tris) ==
    IF tris = <<>> THEN TreePanic
    ELSE BuildSubtree([i \in 1..Len(tris) |-> TriangleBoundingBox(TriCatalogue[tris[i]])],
                      Iota(Len(tris)))

(***************************************************************************)
(* One scene object through its life: a Mesh is constructed without an     *)
(* sbvh, generate_sbvh builds one, clone drops it; then intersect is       *)
(* called once, with any ray of Rays.                                      *)
(***************************************************************************)
Primitives ==
    { [k |-> "sphere", origin |-> <<0, 0, 0>>, radius |-> 5],
      [k |-> "aabb", pos |-> <<0, 0, 0>>, size |-> <<2, 2, 2>>],
      [k |-> "plane", origin |-> <<0, 0, 2>>, normal |-> <<0, 0, 1>>],
      [k |-> "plane", origin |-> <<0, 0, 2>>, normal |-> <<0, 0, -1>>],
      [k |-> "plane", origin |-> <<3, 0, 0>>, normal |-> <<1, 0, 0>>] }

\* The index triples <<3i, 3i + 1, 3i + 2>> of n triangles.
OwnIndices(n) == [i \in 1..n |-> <<3 * i - 3, 3 * i - 2, 3 * i - 1>>]

\* The normals recalculate_normals computes: at each vertex the normalized
\* mean of the normals of the triangles that share it, here the one
\* triangle.  (The order of normals follows the iteration of a HashMap;
\* tri_normals follows it too.)
VertexNormals(tris) ==
    [j \in 1..(3 * Len(tris)) |-> TriangleNormal(TriCatalogue[tris[(j + 2) \div 3]])]

\* Mesh::new, the triangles then pushed to verts and tris; and
\* Mesh::from_obj of a file with or without vn and vt lines.  sbvh is None.
MeshNew(tris, from, vn, vt) ==
    [k |-> "mesh", tris |-> tris, sbvh |-> NoTree, from |-> from,
     normals |-> IF vn THEN VertexNormals(tris) ELSE <<>>,
     tri_normals |-> IF vn THEN OwnIndices(Len(tris)) ELSE <<>>,
     texcoords |-> IF vt THEN 3 * Len(tris) ELSE 0,
     tri_texcoords |-> IF vt THEN OwnIndices(Len(tris)) ELSE <<>>]

RayOrigins ==
    { <<0, 0, -7>>, <<0, 0, 0>>, <<0, 4, 0>>, <<0, 0, 5>>,
      <<3, 0, -7>>, <<6, 0, -7>>, <<0, 0, 7>>, <<0, 0, 3>> }

AxisDirections ==
    { <<1, 0, 0>>, <<-1, 0, 0>>, <<0, 1, 0>>, <<0, -1, 0>>,
      <<0, 0, 1>>, <<0, 0, -1>> }

Rays == {NewRay(o, d) : o \in RayOrigins, d \in AxisDirections}

\* The implementation of Intersect::intersect the object dispatches to.
IntersectOf(obj, r) ==
    IF obj.k = "sphere" THEN SphereIntersect(obj.origin, obj.radius, r)
    ELSE IF obj.k = "aabb" THEN AabbIntersectorIntersect(obj.pos, obj.size, r)
    ELSE IF obj.k = "plane" THEN PlaneIntersect(obj.origin, obj.normal, r)
    ELSE MeshIntersect(obj, r)

\* Mesh::generate_sbvh.  Sbvh::new aborts on some inputs.
GenerateSbvh ==
    /\ istat = "ready"
    /\ target.k = "mesh"
    /\ LET t == BuildTree(target.tris)
       IN  IF t.kind = "Panic"
           THEN /\ istat' = "panic"
                /\ target' = target
           ELSE /\ istat' = istat
                /\ target' = [target EXCEPT !.sbvh = t]
    /\ UNCHANGED <<ray, hit, examined>>
    /\ UNCHANGED notIsectVars

\* Mesh::recalculate_normals.
RecalculateNormals ==
    /\ istat = "ready"
    /\ target.k = "mesh"
    /\ target' = [target EXCEPT !.normals = VertexNormals(target.tris),
                                !.tri_normals = OwnIndices(Len(target.tris))]
    /\ UNCHANGED <<ray, hit, examined, istat>>
    /\ UNCHANGED notIsectVars

\* Mesh::clone: the copy takes the place of the mesh.
MeshClone ==
    /\ istat = "ready"
    /\ target.k = "mesh"
    /\ target' = [target EXCEPT !.sbvh = NoTree, !.from = "clone"]
    /\ UNCHANGED <<ray, hit, examined, istat>>
    /\ UNCHANGED notIsectVars

\* object.intersect(&ray).
Intersect ==
    /\ istat = "ready"
    /\ \E r \in Rays :
          /\ ray' = r
          /\ hit' = IntersectOf(target, r)
          /\ examined' = IF target.k = "mesh" THEN MeshExamined(target, r) ELSE 0
    /\ istat' = "called"
    /\ UNCHANGED target
    /\ UNCHANGED notIsectVars

InitIsect ==
    /\ BuildIdle
    /\ TraceIdle
    /\ RenderIdle
    /\ SkyIdle
    /\ CamIdle
    /\ RefrIdle
    /\ MatIdle
    /\ AreaIdle
    /\ CastIdle
    /\ PollIdle
    /\ MeshOpsIdle
    /\ ThruIdle
    /\ target \in Primitives
                  \cup {MeshNew(tris, "new", FALSE, FALSE) :
                           tris \in SeqsUpTo(TriIds, MaxMeshTris)}
                  \cup {MeshNew(tris, "from_obj", vn, vt) :
                           tris \in SeqsUpTo(TriIds, MaxMeshTris),
                           vn \in BOOLEAN, vt \in BOOLEAN}
    /\ ray = [k |-> "unset"]
    /\ hit = [k |-> "unset"]
    /\ examined = 0
    /\ istat = "ready"

NextIsect ==
    \/ GenerateSbvh
    \/ RecalculateNormals
    \/ MeshClone
    \/ Intersect

SpecIsect == InitIsect /\ [][NextIsect]_vars

Returned == istat = "called" /\ hit.k = "Some"

\* C8: whenever intersect returns Some(h), for any primitive and any ray
\* (a ray that starts inside or on the primitive included), h.near is at
\* least EPSILON and h.far is at least h.near.
C8_NearAtLeastEpsilon ==
    Returned => (GeEps(hit.near) /\ RLeq(hit.near, hit.far))

\* C9: whenever intersect returns Some(h), for any primitive and any ray,
\* the normal faces the incoming ray: h.normal . ray.direction <= 0; a mesh
\* triangle struck on its back face has its normal flipped.
C9_NormalFacesRay ==
    Returned => Dot(hit.normal, ray.direction) <= 0

\* C10: intersect on a mesh whose sbvh is None (constructed, loaded or
\* cloned, and not built since) stops at the assertion at its top, with no
\* BVH node and no triangle examined; it returns neither a Hit nor a miss.
C10_UnbuiltMeshAsserts ==
    (istat = "called" /\ target.k = "mesh" /\ target.sbvh = NoTree) =>
        (hit = HitPanic("assert") /\ examined = 0)

\* A mesh that was built, then cloned: the clone's intersect asserts.
C10_Witness ==
    /\ istat = "called"
    /\ target.k = "mesh"
    /\ target.from = "clone"
    /\ Len(target.tris) = MaxMeshTris
    /\ BuildTree(target.tris).kind = "Branch"
    /\ target.sbvh = NoTree
    /\ hit = HitPanic("assert")

REq(a, b) == a[1] * b[2] = b[1] * a[2]

\* A call of intersect on a mesh whose sbvh is built.
MeshCalled == istat = "called" /\ target.k = "mesh" /\ target.sbvh # NoTree

\* The candidate triangles of the call that triangle_intersect accepts.
CalledIntersected ==
    IntersectedTris(target, SbvhIntersection(target.sbvh, ray).v, ray)

\* C11: Mesh.intersect returns None when no candidate triangle is
\* intersected; otherwise it returns a Hit whose near is the least t over
\* the intersected candidates and whose far is the second-smallest t, or
\* near itself when exactly one triangle is intersected; so near <= far.
C11_NearIsMinFarIsSecond ==
    MeshCalled =>
        LET hs == CalledIntersected
            T == 1..Len(hs)
        IN  IF hs = <<>> THEN hit = HitNone
            ELSE /\ hit.k = "Some"
                 /\ RLeq(hit.near, hit.far)
                 /\ \E i \in T :
                       /\ REq(hit.near, hs[i].h.t)
                       /\ \A j \in T : RLeq(hit.near, hs[j].h.t)
                       /\ IF Len(hs) = 1 THEN REq(hit.far, hit.near)
                          ELSE /\ \E k \in T \ {i} : REq(hit.far, hs[k].h.t)
                               /\ \A j \in T \ {i} : RLeq(hit.far, hs[j].h.t)

(***************************************************************************)
(* skybox.rs: Cubemap.  The direction handed to ray_color has small        *)
(* integer components (Ray::new does not normalize), a zero component      *)
(* being +0.0; every quotient is exact.                                    *)
(***************************************************************************)
MaxCell == 2
MaxDir == 2

RNeg(a) == <<-a[1], a[2]>>
ROneMinus(a) == <<a[2] - a[1], a[2]>>
RFloor(a) == a[1] \div a[2]
RCeil(a) == -((-a[1]) \div a[2])
RIsInteger(a) == a[1] % a[2] = 0

\* An f64 that is a quotient, an infinity or NaN.
QFin(q) == [k |-> "fin", v |-> q]

QLess(a, b) ==
    /\ a.k # "nan"
    /\ b.k # "nan"
    /\ \/ a.k = "-inf" /\ b.k # "-inf"
       \/ b.k = "inf" /\ a.k # "inf"
       \/ a.k = "fin" /\ b.k = "fin" /\ RLess(a.v, b.v)

QMax(a, b) ==
    IF a.k = "nan" THEN b ELSE IF b.k = "nan" THEN a
    ELSE IF QLess(a, b) THEN b ELSE a

QMin(a, b) ==
    IF a.k = "nan" THEN b ELSE IF b.k = "nan" THEN a
    ELSE IF QLess(b, a) THEN b ELSE a

\* (1 / dir) * (x2 / 2), where a zero dir is -0.0, the negation of +0.0.
QTimesInverse(dir, x2) ==
    IF dir # 0 THEN QFin(Rat(x2, 2 * dir))
    ELSE IF x2 > 0 THEN NegInf
    ELSE IF x2 < 0 THEN PosInf
    ELSE NaN

\* The normal AabbIntersector::intersect gives the Hit: the axis of the
\* greatest t1, with the sign s.
SlabNormal(s, t1) ==
    IF QLess(t1[2], t1[1]) /\ QLess(t1[3], t1[1])
    THEN <<s[1], 0, 0>>
    ELSE IF QLess(t1[3], t1[2])
    THEN <<0, s[2], 0>>
    ELSE <<0, 0, s[3]>>

\* ray.along(t), componentwise, for a quotient t.
Along(ro, dir, t) ==
    [i \in 1..3 |-> Rat(ro[i] * t[2] + dir[i] * t[1], t[2])]

\* pns = (1 - |normal|) * pn / size, with size = 0.5.
PlaneCoordinates(normal, pn) ==
    [i \in 1..3 |-> <<(1 - Abs(normal[i])) * 2 * pn[i][1], pn[i][2]>>]

\* The uv of the face the normal names, before it is halved and shifted.
FaceUv(normal, pns) ==
    IF normal[2] = 1 THEN <<pns[1], pns[3]>>
    ELSE IF normal[2] = -1 THEN <<RNeg(pns[1]), RNeg(pns[3])>>
    ELSE IF normal[1] = 1 THEN <<RNeg(pns[3]), RNeg(pns[2])>>
    ELSE IF normal[1] = -1 THEN <<pns[3], RNeg(pns[2])>>
    ELSE IF normal[3] = 1 THEN <<pns[1], RNeg(pns[2])>>
    ELSE <<RNeg(pns[1]), RNeg(pns[2])>>

\* q * 0.5 + 0.5, on both coordinates.
HalfPlusHalf(uv) ==
    [c \in 1..2 |-> <<uv[c][1] + uv[c][2], 2 * uv[c][2]>>]

\* The Hit, given the slabs.
SlabHit(ro, dir, s, t1, tn, tf) ==
    IF QLess(tf, tn) \/ QLess(tf, QFin(<<0, 1>>)) THEN HitNone
    ELSE [k |-> "Some", normal |-> SlabNormal(s, t1),
          uv |-> HalfPlusHalf(FaceUv(SlabNormal(s, t1),
                     PlaneCoordinates(SlabNormal(s, t1),
                                      Along(ro, dir, tn.v))))]

\* AabbIntersector::intersect of the cubemap's box, pos = (0, 0, 0) and
\* size = (0.5, 0.5, 0.5), with Ray::new(d * 2, -d): the normal and the uv
\* of the Hit.
CubemapAabbIntersect(d) ==
    LET ro == VScale(d, 2)
        dir == VNeg(d)
        s == [i \in 1..3 |-> IF -d[i] > 0 THEN -1 ELSE 1]
        t1 == [i \in 1..3 |->
                 QTimesInverse(-d[i], -4 * d[i] + (IF -d[i] > 0 THEN -1 ELSE 1))]
        t2 == [i \in 1..3 |->
                 QTimesInverse(-d[i], -4 * d[i] - (IF -d[i] > 0 THEN -1 ELSE 1))]
    IN  SlabHit(ro, dir, s, t1,
                QMax(QMax(t1[1], t1[2]), t1[3]),
                QMin(QMin(t2[1], t2[2]), t2[3]))

\* The (cx, cy) of an earlier revision of ray_color.
TileOfNormalEarlier(normal) ==
    IF normal[3] = -1 THEN <<1, 1>>
    ELSE IF normal[1] = -1 THEN <<0, 1>>
    ELSE IF normal[1] = 1 THEN <<2, 1>>
    ELSE IF normal[3] = 1 THEN <<3, 1>>
    ELSE IF normal[2] = 1 THEN <<1, 0>>
    ELSE <<1, 2>>

\* The (cx, cy) ray_color chooses for the normal of the Hit.
TileOfNormal(normal) ==
    IF normal[3] = -1 THEN <<1, 1>>
    ELSE IF normal[1] = -1 THEN <<2, 1>>
    ELSE IF normal[1] = 1 THEN <<0, 1>>
    ELSE IF normal[3] = 1 THEN <<3, 1>>
    ELSE IF normal[2] = 1 THEN <<1, 0>>
    ELSE <<1, 2>>

\* The uv ray_color hands to poll_tex.
TileUv(normal, uv) ==
    IF normal[2] = 1 THEN <<ROneMinus(uv[1]), ROneMinus(uv[2])>>
    ELSE IF normal[2] = -1 THEN <<uv[1], ROneMinus(uv[2])>>
    ELSE uv

\* Cubemap::poll_tex: the pixels it reads with get_pixel.
PollTex(cell, cx, cy, u, v) ==
    LET x == <<cx * cell * u[2] + u[1] * (cell - 1), u[2]>>
        y == <<cy * cell * v[2] + v[1] * (cell - 1), v[2]>>
    IN  IF RIsInteger(x) /\ RIsInteger(y) THEN {<<RFloor(x), RFloor(y)>>}
        ELSE {RFloor(x), RCeil(x)} \X {RFloor(y), RCeil(y)}

Directions ==
    {d \in (-MaxDir..MaxDir) \X (-MaxDir..MaxDir) \X (-MaxDir..MaxDir) :
        d # <<0, 0, 0>>}

\* Cubemap::new: the tile is a quarter of the width and a third of the
\* height, which must agree.
CubemapNew ==
    /\ sstat = "new"
    /\ \E w \in 4..(4 * MaxCell + 3), h \in 3..(3 * MaxCell + 2) :
          /\ tex' = <<w, h>>
          /\ IF w \div 4 = h \div 3
             THEN /\ cell_size' = w \div 4
                  /\ sstat' = "ready"
             ELSE /\ cell_size' = cell_size
                  /\ sstat' = "assert"
    /\ UNCHANGED <<sky_dir, sky_tile, sky_read>>
    /\ UNCHANGED notSkyVars

\* Cubemap::ray_color.
RayColor ==
    /\ sstat = "ready"
    /\ \E d \in Directions :
          \E h \in {CubemapAabbIntersect(d)} :
              /\ sky_dir' = d
              /\ IF h.k = "None"
                 THEN /\ sstat' = "unwrap"
                      /\ UNCHANGED <<sky_tile, sky_read>>
                 ELSE \E c \in {TileOfNormal(h.normal)},
                         uv \in {TileUv(h.normal, h.uv)} :
                          /\ sky_tile' = c
                          /\ sky_read' = PollTex(cell_size, c[1], c[2], uv[1], uv[2])
                          /\ sstat' = "sampled"
    /\ UNCHANGED <<tex, cell_size>>
    /\ UNCHANGED notSkyVars

InitSky ==
    /\ BuildIdle
    /\ TraceIdle
    /\ RenderIdle
    /\ IsectIdle
    /\ CamIdle
    /\ RefrIdle
    /\ MatIdle
    /\ AreaIdle
    /\ CastIdle
    /\ PollIdle
    /\ MeshOpsIdle
    /\ ThruIdle
    /\ tex = <<0, 0>>
    /\ cell_size = 0
    /\ sky_dir = <<0, 0, 0>>
    /\ sky_tile = <<>>
    /\ sky_read = {}
    /\ sstat = "new"

NextSky ==
    \/ CubemapNew
    \/ RayColor

SpecSky == InitSky /\ [][NextSky]_vars

\* The axis on which |d| is greatest, when there is one such axis.
OffEdge(d) ==
    \E i \in 1..3 : \A j \in (1..3) \ {i} : Abs(d[i]) > Abs(d[j])

DominantAxis(d) ==
    CHOOSE i \in 1..3 : \A j \in (1..3) \ {i} : Abs(d[i]) > Abs(d[j])

\* The tile the layout of the atlas gives each face.
FaceTile(d) ==
    LET i == DominantAxis(d)
    IN  IF i = AxisX THEN (IF d[i] > 0 THEN <<0, 1>> ELSE <<2, 1>>)
        ELSE IF i = AxisY THEN (IF d[i] > 0 THEN <<1, 0>> ELSE <<1, 2>>)
        ELSE (IF d[i] > 0 THEN <<3, 1>> ELSE <<1, 1>>)

\* C12: for every direction d off the cube's edges, ray_color samples the
\* tile of the dominant axis of d: +x (0,1), -x (2,1), +y (1,0), -y (1,2),
\* +z (3,1), -z (1,1); a +Z ray reads column 3 row 1, (0,0,-1) reads the -Z
\* tile, and every pixel read lies inside the chosen tile.
C12_CubemapTileOfDominantAxis ==
    (sstat \in {"sampled", "unwrap"} /\ OffEdge(sky_dir)) =>
        /\ sstat = "sampled"
        /\ sky_tile = FaceTile(sky_dir)
        /\ sky_read # {}
        /\ \A p \in sky_read :
              /\ sky_tile[1] * cell_size <= p[1]
              /\ p[1] < (sky_tile[1] + 1) * cell_size
              /\ sky_tile[2] * cell_size <= p[2]
              /\ p[2] < (sky_tile[2] + 1) * cell_size

\* A +Z ray on tiles of the largest side: four pixels of column 3, row 1.
C12_Witness ==
    /\ sstat = "sampled"
    /\ cell_size = MaxCell
    /\ sky_dir = <<0, 0, 1>>
    /\ sky_tile = <<3, 1>>
    /\ sky_read = {3 * MaxCell, 3 * MaxCell + 1} \X {MaxCell, MaxCell + 1}

(***************************************************************************)
(* camera.rs.  fov is in whole degrees.  The tangent is not evaluated: chf *)
(* is kept as tan of an angle, the angle in half millionths of a radian,   *)
(* so that (90 - fov * 0.5) * 0.017453 is the integer                      *)
(* (180 - fov) * 17453.  tan is one-to-one on the angles of the model,     *)
(* which lie strictly between -pi/2 and pi/2.                              *)
(***************************************************************************)
MaxFovSteps == 12

\* The factor 0.017453 of Camera::chf, in millionths.
DegToRad == 17453

\* Camera::chf.
CameraChf(fov) == [tan |-> (180 - fov) * DegToRad]

\* impl Default for Camera.
CameraDefault ==
    [k |-> "Camera", vw |-> 300, vh |-> 200, fov |-> 60,
     chf |-> CameraChf(60)]

Fovs == {15 * k : k \in 1..MaxFovSteps}

\* Camera::set_fov.
SetFov ==
    /\ cam.k = "Camera"
    /\ \E f \in Fovs :
          cam' = [cam EXCEPT !.fov = f, !.chf = CameraChf(f)]
    /\ UNCHANGED cam_dir
    /\ UNCHANGED notCamVars

\* Camera::direction_fov, before normalize and doubled: (nx, -ny, -z) with
\* z = vh * 0.5 * chf kept as the pair of vh and chf.
DirectionFov ==
    /\ cam.k = "Camera"
    /\ \E x \in {0, cam.vw}, y \in {0, cam.vh} :
          cam_dir' = [k |-> "Vector3", nx |-> 2 * x - cam.vw,
                      ny |-> -(2 * y - cam.vh), z |-> <<cam.vh, cam.chf>>]
    /\ UNCHANGED cam
    /\ UNCHANGED notCamVars

InitCam ==
    /\ BuildIdle
    /\ TraceIdle
    /\ RenderIdle
    /\ IsectIdle
    /\ SkyIdle
    /\ RefrIdle
    /\ MatIdle
    /\ AreaIdle
    /\ CastIdle
    /\ PollIdle
    /\ MeshOpsIdle
    /\ ThruIdle
    /\ cam = CameraDefault
    /\ cam_dir = [k |-> "unset"]

NextCam ==
    \/ SetFov
    \/ DirectionFov

SpecCam == InitCam /\ [][NextCam]_vars

\* c is tan((90 - fov/2) * pi/180): in half millionths of a radian that
\* angle is (180 - fov) * (pi/180 * 10^6), and pi/180 * 10^6 lies strictly
\* between 17453 and 17454.
IsTanOfHalfFovComplement(c, fov) ==
    LET a == 180 - fov
    IN  IF a = 0 THEN c.tan = 0
        ELSE IF a > 0 THEN a * 17453 < c.tan /\ c.tan < a * 17454
        ELSE a * 17454 < c.tan /\ c.tan < a * 17453

\* C13: in every reachable state of the Camera, after any sequence of FOV
\* mutations, chf equals tan((90 - fov/2) * pi/180) for the current fov, and
\* direction_fov never uses a chf that belongs to another fov.
C13_ChfIsTanOfCurrentFov ==
    cam.k = "Camera" =>
        /\ IsTanOfHalfFovComplement(cam.chf, cam.fov)
        /\ cam_dir.k = "Vector3" =>
              \E f \in Fovs \cup {60} : IsTanOfHalfFovComplement(cam_dir.z[2], f)

\* C14: construction is deterministic given the order of the references:
\* for a fixed triangle list every interleaving of the forked child builds
\* yields the same TreeNode (shape, left and right children, leaf index
\* lists in their order), the one the build run one child after the other
\* yields, although the arena indices of the nodes may differ.
C14_TreeIndependentOfInterleaving ==
    bstat = "done" => tree = BuildTree(prims)

\* A tree whose right child was pushed to the arena before its left child.
C14_Witness ==
    /\ bstat = "done"
    /\ tree.kind = "Branch"
    /\ tree = BuildTree(prims)
    /\ ArenaGet(nodes, len, root_node).rhs < ArenaGet(nodes, len, root_node).lhs

\* C15: normals and UVs are optional per mesh: on a mesh whose BVH is built
\* and whose tri_normals or tri_texcoords is empty, intersect with a ray
\* that strikes a triangle returns a Hit, with no index out of range; and
\* tri_normals and tri_texcoords, when not empty, are as long as tris and
\* hold indices within normals and texcoords.
C15_NormalsAndUvsOptional ==
    /\ (/\ MeshCalled
        /\ CalledIntersected # <<>>
        /\ (target.tri_normals = <<>> \/ target.tri_texcoords = <<>>))
          => hit.k = "Some"
    /\ (target.k = "mesh" /\ target.tri_normals # <<>>) =>
          /\ Len(target.tri_normals) = Len(target.tris)
          /\ \A i \in 1..Len(target.tris) : \A c \in 1..3 :
                target.tri_normals[i][c] < Len(target.normals)
    /\ (target.k = "mesh" /\ target.tri_texcoords # <<>>) =>
          /\ Len(target.tri_texcoords) = Len(target.tris)
          /\ \A i \in 1..Len(target.tris) : \A c \in 1..3 :
                target.tri_texcoords[i][c] < target.texcoords

(***************************************************************************)
(* math/mod.rs: refraction_vec.  The direction and the normal are unit     *)
(* vectors with components in fifths, kept as five times themselves; the   *)
(* IORs are whole numbers.  With p = from_ior and q = to_ior, and cn =     *)
(* 25 * cos_i, sin_t2 > 1 is p^2 * (625 - cn^2) > 625 * q^2, cos_t is      *)
(* sqrt(625 * q^2 - p^2 * (625 - cn^2)) / (25 * q), and the vector         *)
(* returned is (25 * p * d + normal * (p * cn - 25 * q * cos_t)) / (125 q).*)
(***************************************************************************)
MaxIor == 2

UnitVectors ==
    {v \in (-5..5) \X (-5..5) \X (-5..5) : Dot(v, v) = 25}

RefractionVec(direction, normal, from_ior, to_ior) ==
    LET p == from_ior
        q == to_ior
        cn == -Dot(normal, direction)
        radicand == 625 * q * q - p * p * (625 - cn * cn)
    IN  IF p * p * (625 - cn * cn) > 625 * q * q THEN [k |-> "None"]
        ELSE IF \E r \in 0..(25 * q) : r * r = radicand
        THEN LET s == Sqrt(radicand)
             IN  [k |-> "Some", den |-> 125 * q,
                  v |-> VAdd(VScale(direction, 25 * p), VScale(normal, p * cn - s))]
        ELSE [k |-> "Some", den |-> 125 * q, v |-> "irrational"]

\* A call of refraction_vec.
CallRefractionVec ==
    /\ refr_in.k = "args"
    /\ refr_out.k = "unset"
    /\ refr_out' = RefractionVec(refr_in.direction, refr_in.normal,
                                 refr_in.from_ior, refr_in.to_ior)
    /\ UNCHANGED refr_in
    /\ UNCHANGED notRefrVars

InitRefr ==
    /\ BuildIdle
    /\ TraceIdle
    /\ RenderIdle
    /\ IsectIdle
    /\ SkyIdle
    /\ CamIdle
    /\ MatIdle
    /\ AreaIdle
    /\ CastIdle
    /\ PollIdle
    /\ MeshOpsIdle
    /\ ThruIdle
    /\ refr_in \in [k : {"args"}, direction : UnitVectors, normal : UnitVectors,
                    from_ior : 1..MaxIor, to_ior : 1..MaxIor]
    /\ refr_out = [k |-> "unset"]

NextRefr == CallRefractionVec

SpecRefr == InitRefr /\ [][NextRefr]_vars

\* C16: for every unit direction d and every unit normal n, facing the ray
\* or not, refraction_vec with from_ior = to_ior returns Some(d).
C16_RefractionAtIorOneIsDirection ==
    (refr_out.k # "unset" /\ refr_in.from_ior = refr_in.to_ior) =>
        /\ refr_out.k = "Some"
        /\ refr_out.v # "irrational"
        /\ \A i \in 1..3 : 5 * refr_out.v[i] = refr_out.den * refr_in.direction[i]

(***************************************************************************)
(* math/matrix.rs.  Components are whole numbers; the Euler angles are     *)
(* quarter turns, whose sines and cosines are 0, 1 and -1.                 *)
(***************************************************************************)
MaxCoord == 1

Coords == -MaxCoord..MaxCoord

\* impl Default for Matrix.
MatrixDefault ==
    [k |-> "Matrix", x |-> 0, y |-> 0, z |-> 0,
     m00 |-> 1, m01 |-> 0, m02 |-> 0,
     m10 |-> 0, m11 |-> 1, m12 |-> 0,
     m20 |-> 0, m21 |-> 0, m22 |-> 0]

\* Matrix::new, and From<Vector3>.
MatrixNew(x, y, z) == [MatrixDefault EXCEPT !.x = x, !.y = y, !.z = z]

\* Matrix::rowed_components.
RowedComponents(m) ==
    << <<m.m00, m.m01, m.m02, m.x>>,
       <<m.m10, m.m11, m.m12, m.y>>,
       <<m.m20, m.m21, m.m22, m.z>>,
       <<0, 0, 0, 1>> >>

\* impl Mul for Matrix.
MatrixMul(lhs, rhs) ==
    LET a == RowedComponents(lhs)
        b == RowedComponents(rhs)
        o == [i \in 1..4 |-> [j \in 1..4 |->
                a[i][1] * b[1][j] + a[i][2] * b[2][j]
                  + a[i][3] * b[3][j] + a[i][4] * b[4][j]]]
    IN  [k |-> "Matrix", x |-> o[1][4], y |-> o[2][4], z |-> o[3][4],
         m00 |-> o[1][1], m01 |-> o[1][2], m02 |-> o[1][3],
         m10 |-> o[2][1], m11 |-> o[2][2], m12 |-> o[2][3],
         m20 |-> o[3][1], m21 |-> o[3][2], m22 |-> o[3][3]]

\* cos and sin of q quarter turns.
QuarterCos(q) == <<1, 0, -1, 0>>[(q % 4) + 1]
QuarterSin(q) == <<0, 1, 0, -1>>[(q % 4) + 1]

\* Matrix::euler_matrices.
EulerMatrices(x, y, z) ==
    << [MatrixDefault EXCEPT !.m11 = QuarterCos(x), !.m12 = -QuarterSin(x),
                             !.m21 = QuarterSin(x), !.m22 = QuarterCos(x)],
       [MatrixDefault EXCEPT !.m00 = QuarterCos(y), !.m02 = QuarterSin(y),
                             !.m20 = -QuarterSin(y), !.m22 = QuarterCos(y)],
       [MatrixDefault EXCEPT !.m00 = QuarterCos(z), !.m01 = -QuarterSin(z),
                             !.m10 = QuarterSin(z), !.m11 = QuarterCos(z),
                             !.m22 = 1] >>

\* Matrix::from_euler_xyz.
FromEulerXyz(x, y, z) ==
    LET e == EulerMatrices(x, y, z)
    IN  MatrixMul(MatrixMul(e[1], e[2]), e[3])

\* The matrices the constructors give.
Matrices ==
    {MatrixDefault}
        \cup {MatrixNew(x, y, z) : x \in Coords, y \in Coords, z \in Coords}
        \cup {FromEulerXyz(x, y, z) : x \in 0..3, y \in 0..3, z \in 0..3}

\* lhs * rhs.
Multiply ==
    /\ mat_a.k = "Matrix"
    /\ mat_out.k = "unset"
    /\ mat_out' = MatrixMul(mat_a, mat_b)
    /\ UNCHANGED <<mat_a, mat_b>>
    /\ UNCHANGED notMatVars

InitMat ==
    /\ BuildIdle
    /\ TraceIdle
    /\ RenderIdle
    /\ IsectIdle
    /\ SkyIdle
    /\ CamIdle
    /\ RefrIdle
    /\ AreaIdle
    /\ CastIdle
    /\ PollIdle
    /\ MeshOpsIdle
    /\ ThruIdle
    /\ mat_a \in Matrices
    /\ mat_b \in Matrices
    /\ mat_out = [k |-> "unset"]

NextMat == Multiply

SpecMat == InitMat /\ [][NextMat]_vars

\* The 3x3 part of m is the identity.
LinearPartIsIdentity(m) ==
    /\ m.m00 = 1 /\ m.m01 = 0 /\ m.m02 = 0
    /\ m.m10 = 0 /\ m.m11 = 1 /\ m.m12 = 0
    /\ m.m20 = 0 /\ m.m21 = 0 /\ m.m22 = 1

\* C17: Matrix::new(x, y, z), Matrix::from(Vector3) and Matrix::default()
\* yield a matrix whose 3x3 part is the identity and whose translation is
\* (x, y, z), so Matrix::new(0, 0, 0) is a two-sided identity of the
\* product: I * M = M * I = M for every M.
C17_NewIsIdentityFromTranslation ==
    mat_out.k = "Matrix" =>
        /\ \A x \in Coords, y \in Coords, z \in Coords :
              mat_a = MatrixNew(x, y, z) =>
                  /\ LinearPartIsIdentity(mat_a)
                  /\ <<mat_a.x, mat_a.y, mat_a.z>> = <<x, y, z>>
        /\ mat_a = MatrixNew(0, 0, 0) => mat_out = mat_b
        /\ mat_b = MatrixNew(0, 0, 0) => mat_out = mat_a

(***************************************************************************)
(* lighting/area.rs.  The hit is at the origin with normal (0, 0, 1), the  *)
(* ray arrives along (0, 0, -1), and the surface is a rectangle collapsed  *)
(* onto the z axis, so that every distance is a whole number.  A float is  *)
(* a quotient in lowest terms, or NaN.                                     *)
(***************************************************************************)
MaxIterations == 2
MaxSpan == 1

\* lighting/mod.rs.
METER == 1

\* The farthest point of the surface.
MaxZ == 1 + 2 * MaxSpan

RECURSIVE Gcd(_, _)
Gcd(a, b) == IF b = 0 THEN a ELSE Gcd(b, a % b)

\* The quotient n / d, d > 0, in lowest terms.
Lowest(n, d) ==
    LET g == Gcd(Abs(n), d)
    IN  QFin(<<n \div g, d \div g>>)

\* a + b and a / n on floats: 0 / 0 is NaN.
FAdd(a, b) ==
    IF a.k = "nan" \/ b.k = "nan" THEN NaN
    ELSE Lowest(a.v[1] * b.v[2] + b.v[1] * a.v[2], a.v[2] * b.v[2])
FDivLen(a, n) ==
    IF a.k = "nan" THEN NaN
    ELSE IF n = 0 THEN (IF a.v[1] = 0 THEN NaN
                        ELSE IF a.v[1] > 0 THEN PosInf ELSE NegInf)
    ELSE Lowest(a.v[1], a.v[2] * n)

\* LightShading::new and LightShading::default().
LightShadingNew(diffuse, specular, intensity) ==
    [k |-> "LightShading", diffuse |-> diffuse, specular |-> specular,
     intensity |-> intensity]
LightShadingDefault ==
    LightShadingNew(Lowest(0, 1), Lowest(0, 1), Lowest(0, 1))

\* Area::default(), with the surface, iterations and max_distance given.
AreaNew(iterations, max_distance) ==
    [k |-> "Area", intensity |-> 6, specular_power |-> 32,
     surface |-> << <<0, 0, 1>>, <<0, 0, MaxZ>>, <<0, 0, 1>>, <<0, 0, MaxZ>> >>,
     iterations |-> iterations, max_distance |-> max_distance]

\* The values random() * 0.5 + 0.5 takes, as numerators over 2 * MaxSpan.
RandomUnit == 0..(2 * MaxSpan)

\* blerp(tx / den, ty / den, c00, c10, c01, c11).
Blerp(tx, ty, den, c00, c10, c01, c11) ==
    LET a == VAdd(VScale(c00, den - tx), VScale(c10, tx))
        b == VAdd(VScale(c01, den - tx), VScale(c11, tx))
        c == VAdd(VScale(a, den - ty), VScale(b, ty))
    IN  [i \in 1..3 |-> c[i] \div (den * den)]

\* AreaSurface::sample for a Rectangle.
AreaSurfaceSample(corners, tx, ty) ==
    Blerp(tx, ty, 2 * MaxSpan, corners[1], corners[2], corners[3], corners[4])

\* Vector3::magnitude.
Magnitude(v) == Sqrt(Dot(v, v))

\* The hit and the ray of the call.
AreaHit == [vnear |-> <<0, 0, 0>>, normal |-> <<0, 0, 1>>]
AreaRayDirection == <<0, 0, -1>>

\* A scene without objects, or with a plane z = h + 1/2.
NoOccluder == [k |-> "empty"]
OccluderAt(h) == [k |-> "plane", h |-> h]

\* scene.cast_ray_once(&shadow_ray) is Some with near <= dist.  The shadow
\* ray leaves EPSILON above the hit, along the z axis.
ShadowHitWithin(scene, dist) ==
    /\ scene.k = "plane"
    /\ 2 * scene.h + 1 <= 2 * dist

RECURSIVE Powi(_, _)
Powi(b, n) == IF n = 0 THEN 1 ELSE b * Powi(b, n - 1)

\* f64::clamp(0., f64::MAX) of a whole number.
ClampNonNegative(x) == IF x < 0 THEN 0 ELSE x

\* The LightShading pushed for the sampled position pos, at distance dist.
ShadingOfSample(light, scene, pos, dist) ==
    LET lvec == [i \in 1..3 |-> VSub(pos, AreaHit.vnear)[i] \div dist]
        diffuse0 == ClampNonNegative(Dot(AreaHit.normal, lvec))
        halfway_dir == Normalize(VSub(lvec, AreaRayDirection))
        specular0 == Powi(ClampNonNegative(Dot(AreaHit.normal, halfway_dir)),
                          light.specular_power)
        shadowed == ShadowHitWithin(scene, dist)
        diffuse == IF shadowed THEN 0 ELSE diffuse0
        specular == IF shadowed THEN 0 ELSE specular0
        lint == Lowest(light.intensity * METER * METER, dist * dist)
    IN  LightShadingNew(Lowest(diffuse, 1), Lowest(specular, 1), lint)

\* The loop body with a sample over distance left out and the loop going on.
ShadingIterationSkipsSample(light, scene, samples, pos) ==
    LET dist == Magnitude(VSub(pos, AreaHit.vnear))
    IN  IF dist > light.max_distance
        THEN [ret |-> FALSE, out |-> [k |-> "unset"], samples |-> samples]
        ELSE [ret |-> FALSE, out |-> [k |-> "unset"],
              samples |-> Append(samples,
                                 ShadingOfSample(light, scene, pos, dist))]

\* The body of the loop of Area::shading for the sampled position pos:
\* either the call returns LightShading::default(), or a sample is pushed.
ShadingIteration(light, scene, samples, pos) ==
    LET dist == Magnitude(VSub(pos, AreaHit.vnear))
    IN  IF dist > light.max_distance
        THEN [ret |-> TRUE, out |-> LightShadingDefault, samples |-> samples]
        ELSE [ret |-> FALSE, out |-> [k |-> "unset"],
              samples |-> Append(samples,
                                 ShadingOfSample(light, scene, pos, dist))]

RECURSIVE SumOf(_, _)
SumOf(samples, f) ==
    IF samples = <<>> THEN Lowest(0, 1)
    ELSE FAdd(Head(samples)[f], SumOf(Tail(samples), f))

\* The return value after the loop: the sums over samples.len().
ShadingMean(samples) ==
    LightShadingNew(FDivLen(SumOf(samples, "diffuse"), Len(samples)),
                    FDivLen(SumOf(samples, "specular"), Len(samples)),
                    FDivLen(SumOf(samples, "intensity"), Len(samples)))

\* One iteration of the loop.
ShadingSample ==
    /\ area_light.k = "Area"
    /\ area_out.k = "unset"
    /\ Len(area_pos) < area_light.iterations
    /\ \E tx \in RandomUnit, ty \in RandomUnit :
          LET pos == AreaSurfaceSample(area_light.surface, tx, ty)
              r == ShadingIteration(area_light, area_scene, area_samples, pos)
          IN  /\ area_pos' = Append(area_pos, pos)
              /\ area_samples' = r.samples
              /\ area_out' = r.out
    /\ UNCHANGED <<area_light, area_scene>>
    /\ UNCHANGED notAreaVars

\* The end of the loop.
ShadingReturn ==
    /\ area_light.k = "Area"
    /\ area_out.k = "unset"
    /\ Len(area_pos) = area_light.iterations
    /\ area_out' = ShadingMean(area_samples)
    /\ UNCHANGED <<area_light, area_scene, area_pos, area_samples>>
    /\ UNCHANGED notAreaVars

InitArea ==
    /\ BuildIdle
    /\ TraceIdle
    /\ RenderIdle
    /\ IsectIdle
    /\ SkyIdle
    /\ CamIdle
    /\ RefrIdle
    /\ MatIdle
    /\ CastIdle
    /\ PollIdle
    /\ MeshOpsIdle
    /\ ThruIdle
    /\ area_light \in {AreaNew(n, d) : n \in 0..MaxIterations, d \in 0..MaxZ}
    /\ area_scene \in {NoOccluder} \cup {OccluderAt(h) : h \in 0..MaxZ}
    /\ area_pos = <<>>
    /\ area_samples = <<>>
    /\ area_out = [k |-> "unset"]

NextArea == ShadingSample \/ ShadingReturn

SpecArea == InitArea /\ [][NextArea]_vars

\* The sampled positions farther than max_distance from the hit point.
TooFar ==
    {i \in 1..Len(area_pos) :
        Magnitude(VSub(area_pos[i], AreaHit.vnear)) > area_light.max_distance}

\* The diffuse, specular and intensity of the sample at distance dist, as a
\* point light gives them.
PerSample(dist) ==
    LET lit == ~ShadowHitWithin(area_scene, dist)
    IN  LightShadingNew(Lowest(IF lit THEN 1 ELSE 0, 1),
                        Lowest(IF lit THEN 1 ELSE 0, 1),
                        Lowest(area_light.intensity, dist * dist))

\* The arithmetic mean of component f over the sampled positions, divided
\* by iterations.
MeanOverIterations(f) ==
    FDivLen(SumOf([i \in 1..Len(area_pos) |->
                      PerSample(Magnitude(area_pos[i]))], f),
            area_light.iterations)

\* C18: if any sampled position is farther than max_distance from the hit
\* point, Area::shading returns all zeros for the whole light, however
\* many earlier samples were in range; otherwise it returns the arithmetic
\* mean of the per-sample diffuse, specular and intensity over exactly
\* iterations samples.
C18_WholeLightCutoffElseMean ==
    area_out.k = "LightShading" =>
        IF TooFar # {}
        THEN area_out = LightShadingDefault
        ELSE /\ Len(area_pos) = area_light.iterations
             /\ area_out = LightShadingNew(MeanOverIterations("diffuse"),
                                           MeanOverIterations("specular"),
                                           MeanOverIterations("intensity"))

\* Every sample but the last in range and the first lit, the last over
\* distance: all zeros.
C18_Witness ==
    /\ area_out = LightShadingDefault
    /\ Len(area_pos) = MaxIterations
    /\ TooFar = {MaxIterations}
    /\ Len(area_samples) = MaxIterations - 1
    /\ area_samples[1].diffuse = Lowest(1, 1)


(***************************************************************************)
(* The branches of trace_ray, read off the colour it returns.              *)
(***************************************************************************)
\* The colour c was blended with a reflection by the pure reflection branch.
ReflectionBranchRan(c) == c.k = "lerp" /\ c.w.w = "reflectiveness"

\* The colour before the pure reflection branch.
BeforeReflection(c) == IF ReflectionBranchRan(c) THEN c.a ELSE c

\* The colour c was blended with transparency_color by the transparency
\* branch.
TransparencyBranchRan(c) ==
    BeforeReflection(c).k = "lerp" /\ BeforeReflection(c).w.w = "transparency"

\* The object the primary ray struck.
Struck(c) ==
    IF TransparencyBranchRan(c) THEN BeforeReflection(c).a.obj
    ELSE BeforeReflection(c).obj

\* C19: for a hit at depth < max_ray_depth, the transparency branch of
\* trace_ray runs iff T > EPSILON and the pure reflection branch runs iff
\* R > EPSILON and T <= EPSILON; so for every material with R > EPSILON
\* exactly one of the two runs, T = EPSILON included, and never both.
C19_ExactlyOneBranch ==
    (tstat = "done" /\ result # Sky /\ 0 < max_ray_depth) =>
        LET m == objects[Struck(result)]
            t == TransparencyBranchRan(result)
            r == ReflectionBranchRan(result)
        IN  /\ t <=> GtEpsL(m.transparency)
            /\ r <=> (GtEpsL(m.reflectiveness) /\ ~GtEpsL(m.transparency))
            /\ GtEpsL(m.reflectiveness) => (t /\ ~r) \/ (r /\ ~t)


(***************************************************************************)
(* The candidates of a traversal, told from the tree node by node.         *)
(***************************************************************************)
\* The index lists of the leaves under node, left before right, of those
\* leaves whose box passes the test, given that every box above passes
\* (above); empty below a box that fails.
RECURSIVE PassingLeaves(_, _, _)
PassingLeaves(node, r, above) ==
    LET here == above /\ AabbIntersect(node.bounding, r)
    IN  IF node.kind = "Branch"
        THEN PassingLeaves(node.a, r, here) \o PassingLeaves(node.b, r, here)
        ELSE IF here THEN node.indices ELSE <<>>

\* The candidates of the call of intersect on a built mesh.
CalledCandidates == SbvhIntersection(target.sbvh, ray).v

\* C20: the traversal returns the index lists, left before right, of the
\* leaves whose own box and every ancestor's box pass the AABB test, and
\* nothing for a subtree whose root box fails it; every triangle whose own
\* bounding box the ray intersects is among the candidates, and no index
\* is returned twice.
C20_TraversalReturnsPassingLeaves ==
    MeshCalled =>
        LET cand == CalledCandidates
            found == SeqRange(cand)
        IN  /\ cand = PassingLeaves(target.sbvh, ray, TRUE)
            /\ \A n \in TreeNodes(target.sbvh) :
                  ~AabbIntersect(n.bounding, ray) =>
                      SbvhIntersection(n, ray) = [some |-> FALSE, v |-> <<>>]
            /\ \A i \in 0..(Len(target.tris) - 1) :
                  AabbIntersect(TriangleBoundingBox(MeshTri(target, i)), ray) =>
                      i \in found
            /\ Cardinality(found) = Len(cand)

\* A tree that split, struck by a ray that passes the root's box and one
\* child's box and misses the other child's: one leaf's indices returned.
C20_Witness ==
    /\ MeshCalled
    /\ target.sbvh.kind = "Branch"
    /\ AabbIntersect(target.sbvh.bounding, ray)
    /\ ~AabbIntersect(target.sbvh.a.bounding, ray)
    /\ AabbIntersect(target.sbvh.b.bounding, ray)
    /\ CalledCandidates = LeafIndices(target.sbvh.b)
    /\ CalledCandidates # <<>>


(***************************************************************************)
(* The arena while and after the forked builds push into it.               *)
(***************************************************************************)
\* The activations of build that have taken their index from the counter.
Indexed == {t \in DOMAIN tasks : tasks[t].pc \in {"store", "done"}}

\* The activations of build whose node is in its slot.
Stored == {t \in DOMAIN tasks : tasks[t].pc = "done"}

\* C21: in every interleaving of the pushes of the forked builds, each push
\* gets an index of its own and no two pushes write one slot; when
\* Sbvh::new returns, every slot below len has been written exactly once,
\* the node of the top-level build has index len - 1, and the lhs and rhs of
\* every Node are below the Node's own index and written, so that no read
\* meets a slot that was never written.
C21_PushesGetDistinctSlots ==
    /\ \A t \in Indexed, u \in Indexed : tasks[t].idx = tasks[u].idx => t = u
    /\ \A t \in Indexed \ Stored :
          tasks[t].idx < Len(nodes) => nodes[tasks[t].idx + 1] = Uninit
    /\ \A t \in Stored :
          LET n == nodes[tasks[t].idx + 1]
          IN  /\ n = tasks[t].node
              /\ n.kind = "Node" =>
                    /\ n.lhs < tasks[t].idx /\ n.rhs < tasks[t].idx
                    /\ nodes[n.lhs + 1] # Uninit /\ nodes[n.rhs + 1] # Uninit
    /\ bstat \in {"built", "done"} =>
          /\ \A i \in 0..(len - 1) :
                /\ nodes[i + 1] # Uninit
                /\ Cardinality({t \in Stored : tasks[t].idx = i}) = 1
          /\ Stored = DOMAIN tasks
          /\ root_node = len - 1

\* Sbvh::new has returned after two forked builds pushed side by side, the
\* second closure's node before the first's.
C21_Witness ==
    /\ bstat = "built"
    /\ len >= 3
    /\ nodes[root_node + 1].kind = "Node"
    /\ nodes[root_node + 1].rhs < nodes[root_node + 1].lhs

(***************************************************************************)
(* scene.rs: Scene::cast_ray, cast_ray_once and the head of trace_ray.     *)
(* The objects are spheres, boxes and planes.  A ray is one of Rays, or a  *)
(* ray whose direction is NaN in every component (a reflection off a hit   *)
(* whose normal is the normalized zero vector).                            *)
(***************************************************************************)
MaxObjects == 3

CastRays ==
    {[k |-> "ray", nan |-> FALSE, r |-> r] : r \in Rays}
        \cup {[k |-> "ray", nan |-> TRUE, r |-> NewRay(<<0, 0, 0>>, <<0, 0, 0>>)]}

\* object.intersect(ray), as None or Some(near).  With a NaN direction the
\* comparisons of Sphere::intersect and AabbIntersector::intersect that
\* return None are all false, and Plane::intersect's denom.abs() > EPSILON
\* is false.
ObjectNear(obj, cr) ==
    IF cr.nan
    THEN (IF obj.k = "plane" THEN [k |-> "None"]
          ELSE [k |-> "Some", near |-> NaN])
    ELSE LET h == IntersectOf(obj, cr.r)
         IN  IF h.k = "Some" THEN [k |-> "Some", near |-> QFin(h.near)]
             ELSE [k |-> "None"]

\* The loop of cast_ray: the objects struck, in the order of scene.objects.
RECURSIVE Struck2(_, _, _)
Struck2(objs, cr, i) ==
    IF i > Len(objs) THEN <<>>
    ELSE LET h == ObjectNear(objs[i], cr)
         IN  (IF h.k = "Some" THEN <<[obj |-> i, near |-> h.near]>> ELSE <<>>)
                 \o Struck2(objs, cr, i + 1)

\* ah.near.partial_cmp(&bh.near).unwrap_or(Ordering::Equal)
NearCmp(a, b) ==
    IF a.k = "nan" \/ b.k = "nan" THEN "Equal"
    ELSE IF QLess(a, b) THEN "Less"
    ELSE IF QLess(b, a) THEN "Greater"
    ELSE "Equal"

\* An insertion that carries x past its equals as well.
RECURSIVE InsertTailPastEquals(_, _)
InsertTailPastEquals(sorted, x) ==
    IF sorted = <<>> THEN <<x>>
    ELSE IF NearCmp(x.near, sorted[Len(sorted)].near) # "Greater"
    THEN InsertTailPastEquals(SubSeq(sorted, 1, Len(sorted) - 1), x)
             \o <<sorted[Len(sorted)]>>
    ELSE Append(sorted, x)

\* slice::sort_by on a short slice is an insertion sort: x moves towards
\* the front while the comparison with its left neighbour gives Less.
RECURSIVE InsertTail(_, _)
InsertTail(sorted, x) ==
    IF sorted = <<>> THEN <<x>>
    ELSE IF NearCmp(x.near, sorted[Len(sorted)].near) = "Less"
    THEN InsertTail(SubSeq(sorted, 1, Len(sorted) - 1), x)
             \o <<sorted[Len(sorted)]>>
    ELSE Append(sorted, x)

RECURSIVE SortByNear(_)
SortByNear(v) ==
    IF v = <<>> THEN <<>>
    ELSE InsertTail(SortByNear(SubSeq(v, 1, Len(v) - 1)), v[Len(v)])

\* Scene::cast_ray.
CastRay ==
    /\ cstat = "ready"
    /\ \E cr \in CastRays :
          /\ cast_ray' = cr
          /\ cast_v' = SortByNear(Struck2(scene_objects, cr, 1))
    /\ cstat' = "cast"
    /\ UNCHANGED <<scene_objects, shaded>>
    /\ UNCHANGED notCastVars

\* cast_ray_once takes the first element; trace_ray shades it, or returns
\* the skybox's colour when there is none.
CastRayOnce ==
    /\ cstat = "cast"
    /\ shaded' = IF cast_v = <<>> THEN [k |-> "skybox"]
                 ELSE [k |-> "object", obj |-> cast_v[1].obj,
                       near |-> cast_v[1].near]
    /\ cstat' = "shading"
    /\ UNCHANGED <<scene_objects, cast_ray, cast_v>>
    /\ UNCHANGED notCastVars

InitCast ==
    /\ BuildIdle
    /\ TraceIdle
    /\ RenderIdle
    /\ IsectIdle
    /\ SkyIdle
    /\ CamIdle
    /\ RefrIdle
    /\ MatIdle
    /\ AreaIdle
    /\ PollIdle
    /\ MeshOpsIdle
    /\ ThruIdle
    /\ scene_objects \in SeqsUpTo(Primitives, MaxObjects)
    /\ cast_ray = [k |-> "unset"]
    /\ cast_v = <<>>
    /\ shaded = [k |-> "unset"]
    /\ cstat = "ready"

NextCast == CastRay \/ CastRayOnce

SpecCast == InitCast /\ [][NextCast]_vars

\* The objects of the scene the ray intersects, and the near of each.
Intersected ==
    {i \in 1..Len(scene_objects) :
        ObjectNear(scene_objects[i], cast_ray).k = "Some"}
NearOf(i) == ObjectNear(scene_objects[i], cast_ray).near

\* C22: trace_ray shades the object whose hit has the least near among the
\* objects the ray intersects, and takes the skybox's colour iff the ray
\* intersects none; among objects whose nears are equal, or not comparable
\* and so taken as Equal, the first of scene.objects is the one shaded.
C22_ShadesNearestFirstOnTies ==
    cstat = "shading" =>
        /\ shaded.k = "skybox" <=> Intersected = {}
        /\ shaded.k = "object" =>
              /\ shaded.obj \in Intersected
              /\ shaded.near = NearOf(shaded.obj)
              /\ \A j \in Intersected :
                    /\ NearCmp(NearOf(j), shaded.near) # "Less"
                    /\ j < shaded.obj =>
                          NearCmp(NearOf(j), shaded.near) = "Greater"

\* Three objects struck: the first farther than the other two, which tie;
\* the second is shaded.
C22_Witness ==
    /\ cstat = "shading"
    /\ Intersected = {1, 2, 3}
    /\ shaded.k = "object"
    /\ shaded.obj = 2
    /\ NearCmp(NearOf(1), shaded.near) = "Greater"
    /\ NearCmp(NearOf(3), shaded.near) = "Equal"
    /\ ~cast_ray.nan

(***************************************************************************)
(* skybox.rs: Cubemap::poll_tex with the colours it reads.  One channel of *)
(* the texture is followed, the three being treated alike.  x and y are    *)
(* multiples of 1 / UvSteps in [0, 1]; a float is a quotient or NaN.       *)
(***************************************************************************)
MaxPollCell == 3
UvSteps == 4

\* The channel of the texel at (px, py) of the texture: a texture of one
\* colour, one that brightens along x, one along y, and a chequered one.
Patterns == {"uniform", "ramp x", "ramp y", "chequered"}
GetPixel(pat, px, py) ==
    IF pat = "uniform" THEN 200
    ELSE IF pat = "ramp x" THEN (16 * px) % 256
    ELSE IF pat = "ramp y" THEN (16 * py) % 256
    ELSE IF (px + py) % 2 = 0 THEN 255 ELSE 0

\* (x - xmin) / (xmax - xmin) for the quotient x: 0 / 0 when x is whole.
UnitOffset(x) ==
    IF RCeil(x) = RFloor(x) THEN NaN
    ELSE QFin(<<x[1] - RFloor(x) * x[2], x[2] * (RCeil(x) - RFloor(x))>>)

\* blerp on one channel; c / 255 is the channel of Vector3::from(Color),
\* kept here as c.  Any NaN weight makes the result NaN.
BlerpChannel(tx, ty, c00, c10, c01, c11) ==
    IF tx.k = "nan" \/ ty.k = "nan" THEN NaN
    ELSE LET a == <<c00 * (tx.v[2] - tx.v[1]) + c10 * tx.v[1], tx.v[2]>>
             b == <<c01 * (tx.v[2] - tx.v[1]) + c11 * tx.v[1], tx.v[2]>>
         IN  QFin(<<a[1] * (ty.v[2] - ty.v[1]) + b[1] * ty.v[1],
                    tx.v[2] * ty.v[2]>>)

\* Color::newf on one channel: (c.clamp(0., 1.) * 255.0) as u8, for the
\* channel q / 255.  NaN.clamp is NaN, and NaN as u8 is 0.
NewfChannel(q) ==
    IF q.k = "nan" THEN 0
    ELSE IF q.v[1] < 0 THEN 0
    ELSE IF q.v[1] > 255 * q.v[2] THEN 255
    ELSE RFloor(q.v)

\* Cubemap::poll_tex, with x = xn / UvSteps and y = yn / UvSteps.
PollTexColor(pat, cell, cx, cy, xn, yn) ==
    LET x == <<cx * cell * UvSteps + xn * (cell - 1), UvSteps>>
        y == <<cy * cell * UvSteps + yn * (cell - 1), UvSteps>>
    IN  IF RIsInteger(x) /\ RIsInteger(y)
        THEN GetPixel(pat, RFloor(x), RFloor(y))
        ELSE NewfChannel(
                 BlerpChannel(UnitOffset(x), UnitOffset(y),
                              GetPixel(pat, RFloor(x), RFloor(y)),
                              GetPixel(pat, RCeil(x), RFloor(y)),
                              GetPixel(pat, RFloor(x), RCeil(y)),
                              GetPixel(pat, RCeil(x), RCeil(y))))

CallPollTex ==
    /\ poll_in.k = "call"
    /\ poll_out.k = "unset"
    /\ poll_out' = [k |-> "Color",
                    c |-> PollTexColor(poll_in.pat, poll_in.cell, poll_in.cx,
                                       poll_in.cy, poll_in.x, poll_in.y)]
    /\ UNCHANGED poll_in
    /\ UNCHANGED notPollVars

InitPoll ==
    /\ BuildIdle
    /\ TraceIdle
    /\ RenderIdle
    /\ IsectIdle
    /\ SkyIdle
    /\ CamIdle
    /\ RefrIdle
    /\ MatIdle
    /\ AreaIdle
    /\ CastIdle
    /\ MeshOpsIdle
    /\ ThruIdle
    /\ poll_in \in {[k |-> "call", pat |-> pat, cell |-> cell, cx |-> c[1],
                     cy |-> c[2], x |-> xn, y |-> yn] :
                       pat \in Patterns, cell \in 1..MaxPollCell,
                       c \in {<<1, 1>>, <<2, 1>>, <<0, 1>>, <<3, 1>>,
                              <<1, 0>>, <<1, 2>>},
                       xn \in 0..UvSteps, yn \in 0..UvSteps}
    /\ poll_out = [k |-> "unset"]

NextPoll == CallPollTex

SpecPoll == InitPoll /\ [][NextPoll]_vars

\* The sample position of the call, and the bilinear blend of the texels
\* around it: weights by the fractional parts, which are 0 on a whole
\* coordinate.
PollX == <<poll_in.cx * poll_in.cell * UvSteps + poll_in.x * (poll_in.cell - 1),
           UvSteps>>
PollY == <<poll_in.cy * poll_in.cell * UvSteps + poll_in.y * (poll_in.cell - 1),
           UvSteps>>
BilinearBlend ==
    LET fx == PollX[1] - RFloor(PollX) * UvSteps
        fy == PollY[1] - RFloor(PollY) * UvSteps
        c00 == GetPixel(poll_in.pat, RFloor(PollX), RFloor(PollY))
        c10 == GetPixel(poll_in.pat, RCeil(PollX), RFloor(PollY))
        c01 == GetPixel(poll_in.pat, RFloor(PollX), RCeil(PollY))
        c11 == GetPixel(poll_in.pat, RCeil(PollX), RCeil(PollY))
    IN  ((c00 * (UvSteps - fx) + c10 * fx) * (UvSteps - fy)
            + (c01 * (UvSteps - fx) + c11 * fx) * fy) \div (UvSteps * UvSteps)

\* C23: poll_tex returns the bilinear blend of the four texels around the
\* sample position, and the texel itself when the position is whole; also
\* when one coordinate is whole and the other is not, so that on a tile
\* of one colour every sample returns that colour.
C23_PollTexIsBilinear ==
    poll_out.k = "Color" =>
        /\ poll_out.c = BilinearBlend
        /\ poll_in.pat = "uniform" => poll_out.c = GetPixel("uniform", 0, 0)

(***************************************************************************)
(* What one activation of Sbvh::build emits, read off the step that takes  *)
(* it from its entry to its push or to its fork.                           *)
(***************************************************************************)
\* The axis of largest extent, the earlier axis on ties.
LargestExtentAxis(total) ==
    CHOOSE a \in {AxisX, AxisY, AxisZ} :
        /\ \A b \in {AxisX, AxisY, AxisZ} : Extent(total, a) >= Extent(total, b)
        /\ \A b \in {AxisX, AxisY, AxisZ} :
               b < a => Extent(total, b) < Extent(total, a)

\* The cuts whose cost is a number, and those of least cost among them.
Cuts == 1..(OBJECT_BUCKETS - 1)
CostedCuts(rs, total, input, axis) ==
    {i \in Cuts : CostComparable(rs, total, input, axis, i)}
MinCostCuts(rs, total, input, axis) ==
    {i \in CostedCuts(rs, total, input, axis) :
        \A j \in CostedCuts(rs, total, input, axis) :
            CostNumerator(rs, total, input, axis, i)
                <= CostNumerator(rs, total, input, axis, j)}
\* 1 + num / sa_total < n for a cut of least cost.
MinCostBelowLeafCost(rs, total, input, axis) ==
    \E i \in MinCostCuts(rs, total, input, axis) :
        CostNumerator(rs, total, input, axis, i)
            < (Len(input) - 1) * SurfaceArea(total)

\* The slice an activation of the next state is given as its input.
InputAfter(t) ==
    SubSeq(IF tasks'[t].inb = "a" THEN buffer_a' ELSE buffer_b',
           tasks'[t].lo + 1, tasks'[t].hi)

EmitsLeafOrPartition(t, input, total) ==
    IF \/ Len(input) < 2
       \/ ~MinCostBelowLeafCost(refs, total, input, LargestExtentAxis(total))
    THEN /\ tasks'[t].pc = "push"
         /\ tasks'[t].node = [kind |-> "Leaf", refs |-> input]
    ELSE /\ tasks'[t].pc = "join"
         /\ \E i \in MinCostCuts(refs, total, input, LargestExtentAxis(total)) :
              /\ SeqRange(InputAfter(t \o <<0>>)) =
                   {idx \in SeqRange(input) :
                      BucketIdx(RefBox(refs, idx), total,
                                LargestExtentAxis(total)) < i}
              /\ SeqRange(InputAfter(t \o <<1>>)) =
                   {idx \in SeqRange(input) :
                      BucketIdx(RefBox(refs, idx), total,
                                LargestExtentAxis(total)) >= i}
              /\ Len(InputAfter(t \o <<0>>)) + Len(InputAfter(t \o <<1>>))
                   = Len(input)

BuildEmits ==
    \A t \in DOMAIN tasks :
        tasks[t].pc = "start" /\ tasks'[t] # tasks[t] =>
            EmitsLeafOrPartition(t, SubSeq(InBuf(t), tasks[t].lo + 1, tasks[t].hi),
                UnionOver(refs, SubSeq(InBuf(t), tasks[t].lo + 1, tasks[t].hi)))

\* Sbvh::build comes to an end without emitting anything.
BuildAborts == bstat = "building" /\ bstat' = "panic"

\* C24: every activation of Sbvh::build emits a leaf of all its
\* references when there are fewer than 2 or when the least SAH cost over
\* the cuts is not strictly below the leaf cost, and otherwise forks on
\* the references with bucket index below a cut of least cost and the
\* rest, the buckets lying along the axis of largest extent (X before Y
\* before Z on ties).
C24_BuildEmitsLeafOrPartition ==
    [][BuildEmits /\ ~BuildAborts]_vars

\* The same of the activations that do not abort.
C24_EmitsUnlessAborted ==
    [][BuildEmits]_vars

\* The slice an activation of Sbvh::build is given as its input.
InputOf(t) == SubSeq(InBuf(t), tasks[t].lo + 1, tasks[t].hi)

\* The activations about to bucket their references.
Bucketing == {t \in DOMAIN tasks : tasks[t].pc = "start" /\ Len(InputOf(t)) >= 2}

\* C25: every reference of every input set is assigned a bucket index in
\* 0..OBJECT_BUCKETS - 1, one whose centroid lies at the maximum of the
\* union box along the split axis included, and bucket assignment never
\* indexes outside the bucket array.
C25_BucketIndexInRange ==
    /\ \A t \in Bucketing : \A k \in 1..Len(InputOf(t)) :
           BucketIdx(RefBox(refs, InputOf(t)[k]), UnionOver(refs, InputOf(t)),
                     SplitAxis(UnionOver(refs, InputOf(t))))
               \in 0..(OBJECT_BUCKETS - 1)
    /\ bstat = "panic" => tasks = <<>>

\* C26: the arena has 2N - 1 slots for N references, the build never
\* takes more indices than that, and Sbvh::new over no triangle at all
\* completes.
C26_ArenaHoldsEveryNode ==
    /\ bstat \in {"building", "built", "done"} =>
           /\ Len(nodes) = 2 * Len(prims) - 1
           /\ len <= Len(nodes)
    /\ Len(prims) = 0 => bstat # "panic"

\* The same for N >= 1.
C26_ArenaHoldsEveryNodeOfSome ==
    bstat \in {"building", "built", "done"} =>
        /\ Len(nodes) = 2 * Len(prims) - 1
        /\ len <= Len(nodes)

\* The activations about to take the split branch, and what object_split
\* will hand back to them.
Splitting ==
    {t \in Bucketing :
        /\ ~BucketOutOfRange(refs, UnionOver(refs, InputOf(t)), InputOf(t),
                             SplitAxis(UnionOver(refs, InputOf(t))))
        /\ SplitWins(ObjectSplitCandidate(refs, UnionOver(refs, InputOf(t)),
                         InputOf(t), SplitAxis(UnionOver(refs, InputOf(t)))),
                     UnionOver(refs, InputOf(t)), Len(InputOf(t)))}

SplitOf(t) ==
    ObjectSplit(refs, UnionOver(refs, InputOf(t)), InputOf(t),
                SubSeq(OutBuf(t), tasks[t].lo + 1, tasks[t].hi),
                SplitAxis(UnionOver(refs, InputOf(t))),
                ObjectSplitCandidate(refs, UnionOver(refs, InputOf(t)),
                    InputOf(t), SplitAxis(UnionOver(refs, InputOf(t)))).idx)

\* Both cursors stayed in the slice and met: every slot of the output was
\* written once, and the output holds the input's references.
CursorsMeet(sp, input) ==
    /\ ~sp.underflow
    /\ sp.lhs = sp.rhs + 1
    /\ Len(sp.out) = Len(input)
    /\ \A idx \in SeqRange(input) :
           Cardinality({k \in 1..Len(sp.out) : sp.out[k] = idx})
               = Cardinality({k \in 1..Len(input) : input[k] = idx})

\* The activations that have forked got two non-empty slices that make up
\* their own.
Forked == {t \in DOMAIN tasks : tasks[t].pc = "join"}
ForkedOnSmallerSlices ==
    \A t \in Forked :
        /\ tasks[t \o <<0>>].lo = tasks[t].lo
        /\ tasks[t \o <<0>>].hi = tasks[t \o <<1>>].lo
        /\ tasks[t \o <<1>>].hi = tasks[t].hi
        /\ tasks[t \o <<0>>].lo < tasks[t \o <<0>>].hi
        /\ tasks[t \o <<1>>].lo < tasks[t \o <<1>>].hi

\* object_split on an input whose split wins.
SplitIsProper(input, output, total, axis, cand) ==
    (~BucketOutOfRange(refs, total, input, axis)
        /\ SplitWins(cand, total, Len(input))) =>
        \E sp \in {ObjectSplit(refs, total, input, output, axis, cand.idx)} :
            /\ 0 < sp.lhs
            /\ sp.lhs < Len(input)
            /\ CursorsMeet(sp, input)

SplitProperOn(t, input, total, axis) ==
    SplitIsProper(input, SubSeq(OutBuf(t), tasks[t].lo + 1, tasks[t].hi),
                  total, axis, ObjectSplitCandidate(refs, total, input, axis))

SplitLeavesBothSidesNonEmpty ==
    /\ \A t \in Bucketing :
           SplitProperOn(t, InputOf(t), UnionOver(refs, InputOf(t)),
                         SplitAxis(UnionOver(refs, InputOf(t))))
    /\ ForkedOnSmallerSlices
    /\ \A t \in DOMAIN tasks : Len(t) < Len(prims)

\* A bound on the steps the build has left: an activation entered on s
\* references makes at most 2 s - 1 activations of at most four steps
\* each (entry, join, the two halves of push); Sbvh::new adds its own.
StepsLeft(t) ==
    IF tasks[t].pc = "start" THEN 4 * (2 * (tasks[t].hi - tasks[t].lo) - 1)
    ELSE IF tasks[t].pc = "join" THEN 3
    ELSE IF tasks[t].pc = "push" THEN 2
    ELSE IF tasks[t].pc = "store" THEN 1
    ELSE 0

RECURSIVE SumStepsLeft(_)
SumStepsLeft(ts) ==
    IF ts = {} THEN 0
    ELSE LET t == CHOOSE x \in ts : TRUE
         IN  StepsLeft(t) + SumStepsLeft(ts \ {t})

BuildMeasure ==
    IF bstat = "idle" THEN 8 * Len(prims) + 10
    ELSE IF bstat = "building" THEN 2 + SumStepsLeft(DOMAIN tasks)
    ELSE IF bstat = "built" THEN 1
    ELSE 0

\* C27: whenever Sbvh::build takes the split branch, object_split returns
\* 0 < split_point < input length, writes every output slot once with its
\* cursors inside the slice, both recursive calls get smaller non-empty
\* slices, and the build comes to an end: every step lowers a bound on the
\* steps left.
C27_SplitIsProperAndBuildEnds ==
    /\ []SplitLeavesBothSidesNonEmpty
    /\ [][BuildMeasure' < BuildMeasure]_vars

\* A build of MaxTris triangles about to split a slice that an earlier
\* split has handed down.
C27_Witness ==
    \E t \in Splitting : t # <<>> /\ Cardinality(DOMAIN tasks) >= 3

(***************************************************************************)
(* object/mesh.rs: the operations of Mesh that move vertices, and          *)
(* generate_sbvh.  Coordinates are whole multiples of MeshUnit at the      *)
(* start, so that the halving in center is exact for as many operations    *)
(* as the model applies; angles are whole quarter turns.                   *)
(***************************************************************************)
MaxMeshOps == 2
MeshUnit == 2 ^ MaxMeshOps

MeshShapes == {<<1>>, <<2>>, <<3>>, <<1, 2>>, <<1, 3>>, <<3, 2>>, <<2, 3>>}
Deltas == {<<MeshUnit, 0, 0>>, <<0, -MeshUnit, MeshUnit>>}
Factors == {2, -1}
Rotations == {<<1, 0, 0>>, <<0, 1, 2>>}

AllVerts(vs) == {vs[i][c] : i \in 1..Len(vs), c \in 1..3}

\* Mesh::shift: *v += delta for every vertex.
ShiftVerts(vs, delta) ==
    [i \in 1..Len(vs) |-> [c \in 1..3 |-> VAdd(vs[i][c], delta)]]

\* Mesh::center: the box of all vertices, then shift((min + max) * -0.5).
\* With no vertex min + max is VECTOR_MAX + VECTOR_MIN and nothing is
\* shifted.
CenterDelta(vs) ==
    LET box == AabbNew(
                 [k \in 1..3 |-> CHOOSE m \in {v[k] : v \in AllVerts(vs)} :
                                    \A v \in AllVerts(vs) : m <= v[k]],
                 [k \in 1..3 |-> CHOOSE m \in {v[k] : v \in AllVerts(vs)} :
                                    \A v \in AllVerts(vs) : m >= v[k]])
    IN  [k \in 1..3 |-> (-(box.min[k] + box.max[k])) \div 2]

\* Mesh::scale: *v *= delta for every vertex.
ScaleVerts(vs, delta) ==
    [i \in 1..Len(vs) |-> [c \in 1..3 |-> VScale(vs[i][c], delta)]]

\* Matrix::from_euler_zyx.
FromEulerZyx(x, y, z) ==
    MatrixMul(MatrixMul(EulerMatrices(x, y, z)[3], EulerMatrices(x, y, z)[2]),
              EulerMatrices(x, y, z)[1])

\* (rot * Matrix::from(v)).pos().
RotateVec(rot, v) ==
    << MatrixMul(rot, MatrixNew(v[1], v[2], v[3])).x,
       MatrixMul(rot, MatrixNew(v[1], v[2], v[3])).y,
       MatrixMul(rot, MatrixNew(v[1], v[2], v[3])).z >>

RotateVerts(vs, rot) ==
    [i \in 1..Len(vs) |-> [c \in 1..3 |-> RotateVec(rot, vs[i][c])]]

\* An operation applies to a mesh that has operations left in the model.
MeshOpReady == mesh_stat = "ready" /\ mesh_ops < MaxMeshOps

MeshShift ==
    /\ MeshOpReady
    /\ \E delta \in Deltas : mesh_verts' = ShiftVerts(mesh_verts, delta)
    /\ mesh_ops' = mesh_ops + 1
    /\ UNCHANGED <<mesh_normals, mesh_sbvh, mesh_stat>>
    /\ UNCHANGED notMeshOpsVars

MeshCenter ==
    /\ MeshOpReady
    /\ mesh_verts' = ShiftVerts(mesh_verts, CenterDelta(mesh_verts))
    /\ mesh_ops' = mesh_ops + 1
    /\ UNCHANGED <<mesh_normals, mesh_sbvh, mesh_stat>>
    /\ UNCHANGED notMeshOpsVars

MeshScale ==
    /\ MeshOpReady
    /\ \E delta \in Factors : mesh_verts' = ScaleVerts(mesh_verts, delta)
    /\ mesh_ops' = mesh_ops + 1
    /\ UNCHANGED <<mesh_normals, mesh_sbvh, mesh_stat>>
    /\ UNCHANGED notMeshOpsVars

\* Mesh::rotate_xyz: the vertices and the normals by
\* from_euler_xyz(-rot.x, -rot.y, -rot.z).
MeshRotateXyz ==
    /\ MeshOpReady
    /\ \E r \in Rotations :
          /\ mesh_verts' =
               RotateVerts(mesh_verts, FromEulerXyz(-r[1], -r[2], -r[3]))
          /\ mesh_normals' =
               [j \in 1..Len(mesh_normals) |->
                  RotateVec(FromEulerXyz(-r[1], -r[2], -r[3]), mesh_normals[j])]
    /\ mesh_ops' = mesh_ops + 1
    /\ UNCHANGED <<mesh_sbvh, mesh_stat>>
    /\ UNCHANGED notMeshOpsVars

\* Mesh::rotate_zyx.
MeshRotateZyx ==
    /\ MeshOpReady
    /\ \E r \in Rotations :
          /\ mesh_verts' =
               RotateVerts(mesh_verts, FromEulerZyx(-r[1], -r[2], -r[3]))
          /\ mesh_normals' =
               [j \in 1..Len(mesh_normals) |->
                  RotateVec(FromEulerZyx(-r[1], -r[2], -r[3]), mesh_normals[j])]
    /\ mesh_ops' = mesh_ops + 1
    /\ UNCHANGED <<mesh_sbvh, mesh_stat>>
    /\ UNCHANGED notMeshOpsVars

\* Mesh::recalculate_normals: one normal for each vertex, along the normal
\* of its triangle.
MeshRecalculateNormals ==
    /\ MeshOpReady
    /\ mesh_normals' =
         [j \in 1..(3 * Len(mesh_verts)) |->
            Cross(VSub(mesh_verts[(j + 2) \div 3][2], mesh_verts[(j + 2) \div 3][1]),
                  VSub(mesh_verts[(j + 2) \div 3][3], mesh_verts[(j + 2) \div 3][1]))]
    /\ mesh_ops' = mesh_ops + 1
    /\ UNCHANGED <<mesh_verts, mesh_sbvh, mesh_stat>>
    /\ UNCHANGED notMeshOpsVars

\* Mesh::generate_sbvh: Sbvh::new over the triangles baked from the
\* vertices as they are now.
SbvhOfVerts(vs) ==
    BuildSubtree([i \in 1..Len(vs) |-> TriangleBoundingBox(vs[i])], Iota(Len(vs)))

MeshGenerateSbvh ==
    /\ MeshOpReady
    /\ \E t \in {SbvhOfVerts(mesh_verts)} :
          IF t.kind = "Panic"
          THEN /\ mesh_stat' = "panic"
               /\ UNCHANGED mesh_sbvh
          ELSE /\ mesh_sbvh' = t
               /\ UNCHANGED mesh_stat
    /\ mesh_ops' = mesh_ops + 1
    /\ UNCHANGED <<mesh_verts, mesh_normals>>
    /\ UNCHANGED notMeshOpsVars

InitMeshOps ==
    /\ BuildIdle
    /\ TraceIdle
    /\ RenderIdle
    /\ IsectIdle
    /\ SkyIdle
    /\ CamIdle
    /\ RefrIdle
    /\ MatIdle
    /\ AreaIdle
    /\ CastIdle
    /\ PollIdle
    /\ ThruIdle
    /\ mesh_verts \in
         {[i \in 1..Len(s) |->
             [c \in 1..3 |-> VScale(TriCatalogue[s[i]][c], MeshUnit)]] :
                s \in MeshShapes}
    /\ mesh_normals = <<>>
    /\ mesh_sbvh = NoTree
    /\ mesh_ops = 0
    /\ mesh_stat = "ready"

NextMeshOps ==
    \/ MeshShift
    \/ MeshCenter
    \/ MeshScale
    \/ MeshRotateXyz
    \/ MeshRotateZyx
    \/ MeshRecalculateNormals
    \/ MeshGenerateSbvh

SpecMeshOps == InitMeshOps /\ [][NextMeshOps]_vars

\* The boxes of node and of every node below it bound the vertices, as
\* they are now, of the triangles in their leaves.
BoundsCurrentVertices(node) ==
    \A n \in TreeNodes(node) :
        \A k \in 1..Len(LeafIndices(n)) :
            AabbContains(n.bounding,
                         TriangleBoundingBox(mesh_verts[LeafIndices(n)[k] + 1]))

\* C28: after any sequence of the operations of Mesh, an sbvh that is
\* present has node boxes that bound the mesh's vertices as they are now.
C28_SbvhBoundsCurrentVertices ==
    mesh_sbvh # NoTree => BoundsCurrentVertices(mesh_sbvh)

\* The same of the sbvh that generate_sbvh has just stored.
C28_FreshSbvhBounds ==
    [][mesh_sbvh' # mesh_sbvh => (BoundsCurrentVertices(mesh_sbvh))']_vars

(***************************************************************************)
(* scene.rs: the transparency branch of trace_ray for ior == 1.  The ray   *)
(* that struck the object is continued from hit.vfar with its direction    *)
(* unchanged, and cast against the scene, the object it left included.     *)
(***************************************************************************)
\* Hit::new's vfar = ray.along(far), for a far that is a whole number, as
\* it is for the rays and objects of the model.
VFar(r, h) ==
    [i \in 1..3 |-> r.origin[i] + r.direction[i] * (h.far[1] \div h.far[2])]

\* Ray::new(hit.vfar, ray.direction).
ContinuationRay(r, h) == NewRay(VFar(r, h), r.direction)

\* cast_ray_once(ray) of trace_ray's entry, with the object struck.
ThruStrike ==
    /\ thru_obj.k # "unset"
    /\ thru_ray.k = "unset"
    /\ \E r \in Rays :
          /\ IntersectOf(thru_obj, r).k = "Some"
          /\ IntersectOf(thru_obj, r).far[1] % IntersectOf(thru_obj, r).far[2] = 0
          /\ thru_ray' = [k |-> "ray", r |-> r]
          /\ thru_hit' = IntersectOf(thru_obj, r)
    /\ UNCHANGED <<thru_obj, thru_again>>
    /\ UNCHANGED notThruVars

\* self.trace_ray(Ray::new(hit.vfar, ray.direction), depth + 1), up to
\* the intersection of the object just left.
ThruContinue ==
    /\ thru_ray.k = "ray"
    /\ thru_again.k = "unset"
    /\ thru_again' = IntersectOf(thru_obj, ContinuationRay(thru_ray.r, thru_hit))
    /\ UNCHANGED <<thru_obj, thru_ray, thru_hit>>
    /\ UNCHANGED notThruVars

InitThru ==
    /\ BuildIdle
    /\ TraceIdle
    /\ RenderIdle
    /\ IsectIdle
    /\ SkyIdle
    /\ CamIdle
    /\ RefrIdle
    /\ MatIdle
    /\ AreaIdle
    /\ CastIdle
    /\ PollIdle
    /\ MeshOpsIdle
    /\ thru_obj \in Primitives
    /\ thru_ray = [k |-> "unset"]
    /\ thru_hit = [k |-> "unset"]
    /\ thru_again = [k |-> "unset"]

NextThru == ThruStrike \/ ThruContinue

SpecThru == InitThru /\ [][NextThru]_vars

\* C29: the ray continued from hit.vfar with the direction unchanged does
\* not intersect the object it has just left, be it a sphere, a plane or a
\* box, so that what lies behind the object is what the ray finds.
C29_ContinuationLeavesObject ==
    thru_again.k # "unset" => thru_again = HitNone

\* The same of planes, and of spheres the ray does not merely touch.
C29_ContinuationLeavesSphereAndPlane ==
    (/\ thru_again.k # "unset"
     /\ \/ thru_obj.k = "plane"
        \/ thru_obj.k = "sphere" /\ thru_hit.near # thru_hit.far) =>
        thru_again = HitNone

\* How far an activation of trace_ray has got through its calls: none yet,
\* the pass-through or refracted ray, the reflected ray.
CallRank(pc) ==
    IF pc = "cast" THEN 0
    ELSE IF pc \in {"thru", "refracted"} THEN 1
    ELSE 2

\* A step that enters trace_ray from trace_ray: the caller is the
\* innermost activation before, and the one under the new activation after.
TraceRayCalled ==
    /\ calls' = calls + 1
    /\ stack # <<>>
    /\ Len(stack') = Len(stack) + 1

CallsInOrder ==
    TraceRayCalled =>
        /\ CallRank(stack'[Len(stack)].pc) > CallRank(Top.pc)
        /\ stack'[Len(stack')].depth = Top.depth + 1

\* C30: for one primary ray trace_ray is entered at most
\* 2^(max_ray_depth + 1) - 1 times: an activation calls trace_ray at most
\* twice, once for the pass-through or refracted ray and once for the
\* reflected ray, and computing the directly lit colour, shadow rays
\* included, calls it not at all.
C30_TraceRayCallsBounded ==
    /\ [](calls <= 2 ^ (max_ray_depth + 1) - 1)
    /\ [][CallsInOrder]_vars
    /\ [][calls' # calls => (TraceRayCalled \/ (tstat = "idle" /\ calls' = 1))]_vars

\* A finished trace in which every activation above the deepest level
\* called twice.
C30_Witness ==
    /\ tstat = "done"
    /\ max_ray_depth = MaxDepth
    /\ calls = 2 ^ (MaxDepth + 1) - 1

=============================================================================
